---- MODULE Spec2Model ----
(***************************************************************************)
(* Model of the CephFS controller server of ceph-csi: the VolumeLocks      *)
(* registry, the reservation journal (forward and reverse omap entries),   *)
(* the backing subvolumes, and the CreateVolume / DeleteVolume handlers    *)
(* of internal/cephfs/controllerserver.go.                                 *)
(***************************************************************************)
EXTENDS Integers, FiniteSets, Sequences, TLC

\* ------------------------------------------------------------------ bounds
\* Number of concurrent request handlers (one goroutine per gRPC request).
NumHandlers == 2
\* Number of UUIDs the journal can hand out in one run.
MaxUUID == 2
\* Number of distinct request names in use.
NumNames == 1
\* Number of concurrent callers in the lock-registry specification.
NumCallers == 3
\* Largest capacity a ControllerExpandVolume request asks for.
MaxBytes == 3
\* Largest number of capabilities in a ValidateVolumeCapabilities request.
MaxCaps == 2
NumRequests == 2

Handlers == 1..NumHandlers
UUIDs == 1..MaxUUID
Callers == 1..NumCallers
\* Request names chosen by the container orchestrator.
NameOf == <<"pvc-1", "pvc-2", "pvc-3">>
Names == {NameOf[i] : i \in 1..NumNames}
NoUUID == 0
NoName == "none"
\* A volume ID that does not decode as a composed identifier (it may be an
\* ID of the 1.0.0 format).
BadID == MaxUUID + 1
VolIDs == UUIDs \cup {BadID}

\* Lock keys: request names and volume IDs share one VolumeLocks registry.
NameKey(n) == <<"name", n>>
IDKey(u) == <<"id", u>>
LockKeys == {NameKey(n) : n \in Names} \cup {IDKey(u) : u \in VolIDs}

VARIABLES
  VolumeLocks,   \* cs.VolumeLocks: the set of keys currently held
  fwd,           \* journal forward entries: request name -> UUID
  rev,           \* journal reverse entries: UUID -> request name
  subvol,        \* backing subvolume per UUID: "none", "inprogress", "complete"
  tmpsnap,       \* temporary clone snapshot per clone UUID: "none", "created", "protected"
  poolPresent,   \* whether the metadata pool still exists
  nextUUID,      \* next UUID the journal generates
  pc,            \* per handler: position in its operation
  loc,           \* per handler: the operation's local variables
  res,           \* per handler: what the last finished operation returned
  committed,     \* per name: ID returned by a successful CreateVolume, until a DeleteVolume starts
  caller,        \* lock-registry specification: per caller, its last call and result
  clusterMapping,\* resolver specification: the cluster/pool mapping configuration
  journalAt,     \* resolver specification: the <<clusterID, poolID>> that hold the volume's record
  rq,            \* resolver specification: per request, the lookup in progress
  csiID,         \* codec specification: an identifier, its handle and the decoded handle
  SnapshotLocks, \* cs.SnapshotLocks: the set of snapshot keys currently held
  snapJournal,   \* snapshot journal: forward (name -> ID) and reverse (ID -> name) entries
  snaps,         \* backing snapshot per snapshot ID: its state and its source volume
  sop,           \* per snapshot handler: the CreateSnapshot / DeleteSnapshot in progress
  cloneOp        \* clone specification: the clone operation in progress

vars == <<VolumeLocks, fwd, rev, subvol, tmpsnap, poolPresent, nextUUID,
          pc, loc, res, committed, caller, clusterMapping, journalAt, rq, csiID,
          SnapshotLocks, snapJournal, snaps, sop, cloneOp>>

\* The controller operations read neither the mapping configuration nor the
\* codec specification's identifier.
SideUnchanged ==
  UNCHANGED <<clusterMapping, journalAt, rq, csiID,
              SnapshotLocks, snapJournal, snaps, sop, cloneOp>>

\* ---------------------------------------------------------- Lock Registry
\* util.VolumeLocks.TryAcquire: true iff the key was free; the key is then held.
TryAcquireAlways(locks, k) == TRUE

TryAcquire(locks, k) == k \notin locks

\* The registry after a TryAcquire(k) (unchanged when the key was held).
Acquired(locks, k) == locks \cup {k}

\* util.VolumeLocks.Release: removes the key; a no-op when it is not held.
Release(locks, k) == locks \ {k}

\* ------------------------------------------- Lock Registry specification
\* N callers race on TryAcquire / Release of the same registry.
IdleCaller == [key |-> NameKey("pvc-1"), st |-> "idle"]

\* One TryAcquire(k) call by caller c, as one atomic compare-and-set.
LockTryAcquire(c, k) ==
  /\ caller[c].st # "held"
  /\ IF TryAcquire(VolumeLocks, k)
       THEN /\ VolumeLocks' = Acquired(VolumeLocks, k)
            /\ caller' = [caller EXCEPT ![c] = [key |-> k, st |-> "held"]]
       ELSE /\ VolumeLocks' = VolumeLocks
            /\ caller' = [caller EXCEPT ![c] = [key |-> k, st |-> "refused"]]
  /\ UNCHANGED <<fwd, rev, subvol, tmpsnap, poolPresent, nextUUID, pc, loc, res, committed>>
  /\ SideUnchanged

\* The holder releases its key.
LockRelease(c) ==
  /\ caller[c].st = "held"
  /\ VolumeLocks' = Release(VolumeLocks, caller[c].key)
  /\ caller' = [caller EXCEPT ![c].st = "released"]
  /\ UNCHANGED <<fwd, rev, subvol, tmpsnap, poolPresent, nextUUID, pc, loc, res, committed>>
  /\ SideUnchanged

\* Release of a key nobody holds: a no-op.
LockReleaseFree(c, k) ==
  /\ caller[c].st # "held"
  /\ k \notin VolumeLocks
  /\ VolumeLocks' = Release(VolumeLocks, k)
  /\ caller' = [caller EXCEPT ![c] = [key |-> k, st |-> "idle"]]
  /\ UNCHANGED <<fwd, rev, subvol, tmpsnap, poolPresent, nextUUID, pc, loc, res, committed>>
  /\ SideUnchanged

LockCallTryAcquire == \E c \in Callers, k \in LockKeys : LockTryAcquire(c, k)
LockCallRelease == \E c \in Callers : LockRelease(c)
LockCallReleaseFree == \E c \in Callers, k \in LockKeys : LockReleaseFree(c, k)

LockNext == LockCallTryAcquire \/ LockCallRelease \/ LockCallReleaseFree

\* ------------------------------------------------------ Reservation Journal
\* Lookup(identifier): the failure classes of newVolumeOptionsFromVolID.
Lookup(u) ==
  IF u = BadID THEN "InvalidVolID"
  ELSE IF ~poolPresent THEN "PoolNotFound"
  ELSE IF rev[u] = NoName THEN "KeyNotFound"
  ELSE IF subvol[u] = "none" THEN "VolumeNotFound"
  ELSE "nil"

\* Outcomes of an external call: it can fail; it must fail once the pool is gone.
CallOutcomes == IF poolPresent THEN BOOLEAN ELSE {FALSE}

\* part_003 lines 295-326 (GetOMapValue): when the pool cannot be opened the
\* error of NewContextWithPool is returned as it is; a missing key or omap
\* is ErrKeyNotFound; any other failure of the read is a plain error.
GetOMapValue(poolOpen, ok, present) ==
  IF ~poolOpen THEN "Other"
  ELSE IF ~ok THEN "Other"
  ELSE IF ~present THEN "KeyNotFound"
  ELSE "nil"

\* The errors newVolumeOptionsFromVolID can return for volume ID u: the
\* classification of Lookup, or the error of the read of the reverse record.
LookupErrors(u) ==
  IF u = BadID THEN {Lookup(u)}
  ELSE {Lookup(u)} \cup
       ({GetOMapValue(poolPresent, ok, rev[u] # NoName) : ok \in BOOLEAN} \ {"nil"})

\* -------------------------------------------------------- handler locals
SourceKinds == {"none", "snap", "vol"}

NoCommit == [id |-> NoUUID, st |-> "none"]

\* The request and response fields of the thin operations: the requested
\* bytes, the size resizeVolume was called with and the capacity returned
\* (ControllerExpandVolume); the requested capabilities and the confirmed
\* ones (ValidateVolumeCapabilities).
NoCap == -1
NoOut == [bytes |-> NoCap, resized |-> NoCap, cap |-> NoCap,
          caps |-> <<>>, confirmed |-> FALSE, conf |-> <<>>]

IdleLoc == [op |-> "none", name |-> NoName, uuid |-> NoUUID,
            lk |-> "nil", err |-> "nil", defers |-> {}, undoRan |-> FALSE, undoOK |-> FALSE,
            undoErr |-> "nil", prior |-> NoCommit, out |-> NoOut, solo |-> TRUE,
            purge |-> "none", legacy |-> FALSE]

NoRes == [op |-> "none", name |-> NoName, uuid |-> NoUUID, code |-> "none",
          lk |-> "nil", err |-> "nil", undoRan |-> FALSE, undoOK |-> FALSE,
          undoErr |-> "nil", out |-> NoOut, fwdAt |-> NoUUID, revAt |-> NoName, prior |-> NoCommit, solo |-> TRUE,
          purge |-> "none", legacy |-> FALSE]

InFlight(h) == pc[h] \notin {"idle", "done"}

\* A handler that starts while others are in flight is not alone, nor are they.
StartLoc(h, l) ==
  [x \in Handlers |->
     IF x = h THEN [l EXCEPT !.solo = \A y \in Handlers \ {h} : ~InFlight(y)]
     ELSE IF InFlight(x) THEN [loc[x] EXCEPT !.solo = FALSE]
     ELSE loc[x]]

\* The operation of handler h returns `code`: its deferred Releases run, and
\* the journal entries of its volume at that moment are recorded, with the
\* ID an earlier CreateVolume of the name had fixed.
Finish(h, l, code, locks, f, r) ==
  /\ pc' = [pc EXCEPT ![h] = "done"]
  /\ VolumeLocks' = locks \ l.defers
  /\ loc' = [loc EXCEPT ![h] = IdleLoc]
  /\ res' = [res EXCEPT ![h] =
       [op |-> l.op, name |-> l.name, uuid |-> l.uuid, code |-> code,
        lk |-> l.lk, err |-> l.err, undoRan |-> l.undoRan,
        undoOK |-> l.undoOK, undoErr |-> l.undoErr, out |-> l.out,
        fwdAt |-> IF l.name = NoName THEN NoUUID ELSE f[l.name],
        revAt |-> IF l.uuid \in UUIDs THEN r[l.uuid] ELSE NoName,
        prior |-> IF l.op = "CreateVolume" THEN committed[l.name] ELSE l.prior,
        solo |-> l.solo, purge |-> l.purge, legacy |-> l.legacy]]

\* ------------------------------------------------------ backing primitives
\* Best-effort rollback of createCloneFromSubvolume when cloneErr # nil:
\* unprotect, delete the temporary snapshot, purge the clone; each can fail,
\* and a protected snapshot cannot be deleted.
RollbackClone(ts, sv) ==
  { [ts |-> LET t1 == IF un /\ ts = "protected" THEN "created" ELSE ts
            IN IF de /\ t1 # "protected" THEN "none" ELSE t1,
     sv |-> IF pu THEN "none" ELSE sv] : un \in BOOLEAN, de \in BOOLEAN, pu \in BOOLEAN }

\* createCloneFromSubvolume: the outcomes [err, sv, ts] for the clone, from
\* the clone's current subvolume state sv0 and temporary-snapshot state ts0.
createCloneFromSubvolume(sv0, ts0) ==
  \* createSnapshot fails
  { [err |-> "Error", sv |-> sv0, ts |-> ts0] }
  \* protectSnapshot fails: protectErr # nil, the snapshot is deleted (best effort)
  \cup { [err |-> "Error", sv |-> sv0, ts |-> t] : t \in {"none", "created"} }
  \* cloneSnapshot fails: its error lands in protectErr, so only deleteSnapshot
  \* runs, on a snapshot that is still protected
  \cup { [err |-> "Error", sv |-> sv0, ts |-> "protected"] }
  \* getcloneInfo fails: cloneErr # nil but err = nil, so the state check of the
  \* zero CloneStatus follows and the deferred rollback runs
  \cup { [err |-> "CloneInProgress", sv |-> r.sv, ts |-> r.ts] :
           r \in UNION { RollbackClone("protected", s) : s \in {"inprogress", "complete"} } }
  \* the clone is not complete yet
  \cup { [err |-> "CloneInProgress", sv |-> "inprogress", ts |-> "protected"] }
  \* resizeVolume fails, or unprotectSnapshot fails
  \cup { [err |-> "Error", sv |-> r.sv, ts |-> r.ts] : r \in RollbackClone("protected", "complete") }
  \* deleteSnapshot fails
  \cup { [err |-> "Error", sv |-> r.sv, ts |-> r.ts] : r \in RollbackClone("created", "complete") }
  \* success
  \cup { [err |-> "nil", sv |-> "complete", ts |-> "none"] }

\* The clone-from-snapshot branch of createBackingVolume.
cloneFromSnapshot(sv0, ts0) ==
  \* newSnapshotOptionsFromID or checkSnapExists fails: ErrSnapNotFound or other
  { [err |-> e, sv |-> sv0, ts |-> ts0] : e \in {"NotFound", "Internal"} }
  \* cloneSnapshot fails: the raw error is returned
  \cup { [err |-> "Error", sv |-> sv0, ts |-> ts0] }
  \* resizeVolume or getcloneInfo fails: Internal, the clone is purged (best effort)
  \cup { [err |-> "Internal", sv |-> s, ts |-> ts0] : s \in {"none", "inprogress", "complete"} }
  \* the clone is not complete yet
  \cup { [err |-> "CloneInProgress", sv |-> "inprogress", ts |-> ts0] }
  \cup { [err |-> "nil", sv |-> "complete", ts |-> ts0] }

\* The source volume is any volume of the cluster: its lookup by
\* newVolumeOptionsFromVolID succeeds or fails with one of these.
SourceLookupErrors == {"PoolNotFound", "KeyNotFound", "VolumeNotFound", "Other"}

\* The classification of a failed lookup of the source volume (lines 118-125).
SourceLookupCode(e) == IF e # "VolumeNotFound" THEN "NotFound" ELSE "Internal"

\* createBackingVolume: outcomes [err, sv, ts] for the new volume u.  Lines
\* 57-60: without admin credentials in the secrets it fails with
\* InvalidArgument before anything is created.
createBackingOutcomes(kind, u) ==
  { [err |-> "InvalidArgument", sv |-> subvol[u], ts |-> tmpsnap[u]] } \cup
  CASE kind = "snap" -> cloneFromSnapshot(subvol[u], tmpsnap[u])
    [] kind = "vol" ->
         { [err |-> SourceLookupCode(e), sv |-> subvol[u], ts |-> tmpsnap[u]] :
             e \in SourceLookupErrors }
         \cup createCloneFromSubvolume(subvol[u], tmpsnap[u])
    [] OTHER ->
         { [err |-> "Internal", sv |-> subvol[u], ts |-> tmpsnap[u]],
           [err |-> "nil", sv |-> "complete", ts |-> tmpsnap[u]] }

\* Once the pool is gone no call creates anything: only the failures that
\* leave the backing store as it was remain.
createBackingVolume(kind, u) ==
  IF poolPresent THEN createBackingOutcomes(kind, u)
  ELSE { o \in createBackingOutcomes(kind, u) :
           o.err \notin {"nil", "CloneInProgress"} /\ o.sv = subvol[u] /\ o.ts = tmpsnap[u] }

\* ------------------------------------------------------------ CreateVolume
\* Lines 153-157: the request proceeds only when TryAcquire(requestName) succeeded.
CVNameLockIgnored(locks, n) == TRUE

CVNameLockAcquired(locks, n) == TryAcquire(locks, NameKey(n))

\* Line 181: an existing volume (vID # nil) is returned unchanged.
CVNeverReturnExisting(vid) == FALSE

CVReturnExisting(vid) == vid # NoUUID

\* Lines 206-217: the deferred undoVolReservation runs on every error but
\* ErrCloneInProgress.
CVUnreserveNever(err) == FALSE

CVUnreserveAlways(err) == err # "nil"

CVUnreserveOnError(err) == err # "nil" /\ err # "CloneInProgress"

\* The gRPC code CreateVolume returns for an error of createBackingVolume.
CVCreateCode(err) ==
  CASE err = "nil" -> "OK"
    [] err = "CloneInProgress" -> "Aborted"
    [] err = "Error" -> "Unknown"
    [] OTHER -> err

JournalUnchanged == UNCHANGED <<fwd, rev, nextUUID>>
BackingUnchanged == UNCHANGED <<subvol, tmpsnap>>
EnvUnchanged == UNCHANGED <<poolPresent, caller>> /\ SideUnchanged

\* What the last CreateVolume that returned volume ID u left for it, if any.
PriorOf(u) ==
  IF \E n \in Names : committed[n].id = u
    THEN CHOOSE c \in {committed[n] : n \in Names} : c.id = u
    ELSE NoCommit

\* A successful or in-progress CreateVolume fixes the ID later replays must see.
Commit(n, u, st) ==
  IF \E x \in Handlers : InFlight(x) /\ loc[x].op = "DeleteVolume"
    THEN committed
    ELSE [committed EXCEPT ![n] = [id |-> u, st |-> st]]

\* Lines 142-157: entry and TryAcquire(requestName).
CreateVolumeStart(h, n) ==
  /\ pc[h] = "idle"
  /\ LET l == [IdleLoc EXCEPT !.op = "CreateVolume", !.name = n] IN
     IF CVNameLockAcquired(VolumeLocks, n)
       THEN /\ VolumeLocks' = Acquired(VolumeLocks, NameKey(n))
            /\ pc' = [pc EXCEPT ![h] = "cv_check"]
            /\ loc' = StartLoc(h, [l EXCEPT !.defers = {NameKey(n)}])
            /\ res' = res
       ELSE /\ pc' = [pc EXCEPT ![h] = "done"]
            /\ VolumeLocks' = VolumeLocks
            /\ loc' = [StartLoc(h, l) EXCEPT ![h] = IdleLoc]
            /\ res' = [res EXCEPT ![h] =
                 [NoRes EXCEPT !.op = "CreateVolume", !.name = n, !.code = "Aborted",
                               !.err = "Busy", !.prior = committed[n],
                               !.solo = \A y \in Handlers \ {h} : ~InFlight(y)]]
  /\ JournalUnchanged /\ BackingUnchanged /\ EnvUnchanged
  /\ UNCHANGED committed

\* clone.go lines 116-118 (checkCloneFromSubvolumeExists): a clone whose
\* state is not "complete" is reported as ErrCloneInProgress.
CloneAlwaysComplete(state) == FALSE

CloneNotComplete(state) == state # "complete"

\* checkVolExists: look the request name up in the journal; a complete
\* backing object is found, a clone still in progress is ErrCloneInProgress
\* (checkCloneFromSubvolumeExists), anything else is no volume (nil, nil).
checkVolExists(n) ==
  LET u == fwd[n] IN
  IF u # NoUUID /\ subvol[u] # "none" /\ CloneNotComplete(subvol[u])
    THEN [err |-> "CloneInProgress", vid |-> u]
  ELSE IF u # NoUUID /\ subvol[u] = "complete" THEN [err |-> "nil", vid |-> u]
  ELSE [err |-> "nil", vid |-> NoUUID]

\* Lines 159-199: newVolumeOptions (a failure is InvalidArgument) and the
\* call of checkVolExists; ErrCloneInProgress is Aborted, any other error
\* Internal, and an existing volume is returned unchanged.
CreateVolumeCheck(h) ==
  /\ pc[h] = "cv_check"
  /\ LET n == loc[h].name
         c == checkVolExists(n) IN
     \E valid \in BOOLEAN, ok \in CallOutcomes :
       IF ~valid
         THEN Finish(h, [loc[h] EXCEPT !.err = "BadOptions"], "InvalidArgument",
                     VolumeLocks, fwd, rev)
              /\ UNCHANGED committed
       ELSE IF ~ok
         THEN Finish(h, [loc[h] EXCEPT !.err = "Other"], "Internal",
                     VolumeLocks, fwd, rev)
              /\ UNCHANGED committed
       ELSE IF c.err = "CloneInProgress"
         THEN Finish(h, [loc[h] EXCEPT !.uuid = c.vid, !.err = c.err], "Aborted",
                     VolumeLocks, fwd, rev)
              /\ UNCHANGED committed
       ELSE IF CVReturnExisting(c.vid)
         THEN Finish(h, [loc[h] EXCEPT !.uuid = c.vid], "OK", VolumeLocks, fwd, rev)
              /\ committed' = Commit(n, c.vid, "created")
       ELSE /\ pc' = [pc EXCEPT ![h] = "cv_reserve"]
            /\ UNCHANGED <<VolumeLocks, loc, res, committed>>
  /\ JournalUnchanged /\ BackingUnchanged /\ EnvUnchanged

\* Reserve: a forward entry for the request name marks a replayed request.
ReserveNeverReplayed(f, n) == FALSE

ReserveReplayed(f, n) == f[n] # NoUUID

\* reserveVol, first half (line 202): a forward entry for the name is a
\* replayed request and its UUID is returned; else a new UUID is generated and
\* the reverse entry (UUID -> attributes with the request name) is written.
reserveVol(h) ==
  /\ pc[h] = "cv_reserve"
  /\ LET n == loc[h].name IN
     \E ok \in CallOutcomes :
       IF ok /\ ReserveReplayed(fwd, n)
         THEN /\ pc' = [pc EXCEPT ![h] = "cv_create"]
              /\ loc' = [loc EXCEPT ![h].uuid = fwd[n]]
              /\ UNCHANGED <<VolumeLocks, res, rev, nextUUID>>
       ELSE IF ok /\ nextUUID <= MaxUUID
         THEN /\ rev' = [rev EXCEPT ![nextUUID] = n]
              /\ nextUUID' = nextUUID + 1
              /\ pc' = [pc EXCEPT ![h] = "cv_reserve2"]
              /\ loc' = [loc EXCEPT ![h].uuid = nextUUID]
              /\ UNCHANGED <<VolumeLocks, res>>
       ELSE /\ Finish(h, [loc[h] EXCEPT !.err = "Other"], "Internal",
                      VolumeLocks, fwd, rev)
            /\ UNCHANGED <<rev, nextUUID>>
  /\ UNCHANGED <<fwd, committed>>
  /\ BackingUnchanged /\ EnvUnchanged

\* reserveVol, second half: the forward entry (request name -> UUID) is
\* written; when the write fails the reverse entry is deleted again (best
\* effort) and the failure is reported.
reserveVolForward(h) ==
  /\ pc[h] = "cv_reserve2"
  /\ LET n == loc[h].name
         u == loc[h].uuid IN
     \E ok \in CallOutcomes, undone \in CallOutcomes :
       IF ok
         THEN /\ fwd' = [fwd EXCEPT ![n] = u]
              /\ pc' = [pc EXCEPT ![h] = "cv_create"]
              /\ UNCHANGED <<VolumeLocks, loc, res, rev>>
         ELSE /\ rev' = IF undone THEN [rev EXCEPT ![u] = NoName] ELSE rev
              /\ fwd' = fwd
              /\ Finish(h, [loc[h] EXCEPT !.err = "Other"], "Internal",
                        VolumeLocks, fwd', rev')
  /\ UNCHANGED <<nextUUID, committed>>
  /\ BackingUnchanged /\ EnvUnchanged

\* Lines 219-249: createBackingVolume and what CreateVolume does with its
\* error: return the volume, return Aborted for ErrCloneInProgress, or run
\* the deferred undoVolReservation.  The request's content source is read
\* here for the first time, so it is drawn here.  The temporary snapshot of
\* a clone-from-volume is taken on the source volume, which is a volume of
\* the cluster outside this specification.
CreateVolumeBacking(h) ==
  /\ pc[h] = "cv_create"
  /\ LET n == loc[h].name
         u == loc[h].uuid IN
     \E kind \in SourceKinds :
     \E o \in createBackingVolume(kind, u) :
       /\ subvol' = [subvol EXCEPT ![u] = o.sv]
       /\ tmpsnap' = tmpsnap
       /\ IF CVUnreserveOnError(o.err)
            THEN /\ pc' = [pc EXCEPT ![h] = "undo1"]
                 /\ loc' = [loc EXCEPT ![h].err = o.err]
                 /\ committed' = [committed EXCEPT ![n] = NoCommit]
                 /\ UNCHANGED <<VolumeLocks, res>>
            ELSE /\ Finish(h, [loc[h] EXCEPT !.err = o.err], CVCreateCode(o.err),
                           VolumeLocks, fwd, rev)
                 /\ committed' = IF o.err = "nil" THEN Commit(n, u, "created")
                                 ELSE IF o.err = "CloneInProgress" THEN Commit(n, u, "pending")
                                 ELSE committed
  /\ JournalUnchanged /\ EnvUnchanged

\* ------------------------------------------------------ undoVolReservation
\* What the operation returns once undoVolReservation has run: CreateVolume
\* returns the error that triggered it (the undo error is only logged),
\* DeleteVolume returns Internal when the undo failed.
AfterUndoCode(l, undoOK) ==
  IF l.op = "CreateVolume" THEN CVCreateCode(l.err)
  ELSE IF undoOK THEN "OK" ELSE "Internal"

\* part_003 lines 329-347 (RemoveOMapKey): only a failure of the call is
\* returned; the removal of a key that is not there is not an error.
RemoveKeyErrorIfMissing(present) == ~present

RemoveKeyError(present) == FALSE

\* The error of one journal delete: the call failed, or the delete itself
\* reported the key.
DeleteError(ok, present) ==
  IF ~ok THEN "Other" ELSE IF RemoveKeyError(present) THEN "KeyNotFound" ELSE "nil"

\* Unreserve, first half: delete the reverse entry of the UUID.
undoVolReservation(h) ==
  /\ pc[h] = "undo1"
  /\ LET u == loc[h].uuid IN
     \E ok \in CallOutcomes :
       LET e == DeleteError(ok, rev[u] # NoName) IN
       IF e = "nil"
         THEN /\ rev' = [rev EXCEPT ![u] = NoName]
              /\ pc' = [pc EXCEPT ![h] = "undo2"]
              /\ loc' = [loc EXCEPT ![h].undoRan = TRUE]
              /\ UNCHANGED <<VolumeLocks, res>>
         ELSE /\ rev' = rev
              /\ Finish(h, [loc[h] EXCEPT !.undoRan = TRUE, !.undoErr = e],
                        AfterUndoCode(loc[h], FALSE), VolumeLocks, fwd, rev)
  /\ UNCHANGED <<fwd, nextUUID, committed>>
  /\ BackingUnchanged /\ EnvUnchanged

\* Unreserve, second half: delete the forward entry of the request name.
undoVolReservationForward(h) ==
  /\ pc[h] = "undo2"
  /\ LET n == loc[h].name IN
     \E ok \in CallOutcomes :
       LET e == DeleteError(ok, fwd[n] # NoUUID) IN
       IF e = "nil"
         THEN /\ fwd' = [fwd EXCEPT ![n] = NoUUID]
              /\ Finish(h, [loc[h] EXCEPT !.undoOK = TRUE],
                        AfterUndoCode(loc[h], TRUE), VolumeLocks, fwd', rev)
         ELSE /\ fwd' = fwd
              /\ Finish(h, [loc[h] EXCEPT !.undoErr = e],
                        AfterUndoCode(loc[h], FALSE), VolumeLocks, fwd, rev)
  /\ UNCHANGED <<rev, nextUUID, committed>>
  /\ BackingUnchanged /\ EnvUnchanged

\* ------------------------------------------------------------ DeleteVolume
\* Lines 337-350: ErrPoolNotFound and ErrKeyNotFound mean already deleted.
DVOnlyPoolNotFound(err) == err = "PoolNotFound"

DVAlsoVolumeNotFound(err) == err \in {"PoolNotFound", "KeyNotFound", "VolumeNotFound"}

DVAlreadyDeleted(err) == err \in {"PoolNotFound", "KeyNotFound"}

\* Lines 358-376: only ErrVolumeNotFound leads to the garbage collection of
\* the journal entry; every other error is returned as Internal.
DVNeedsGC(err) == err = "VolumeNotFound"

\* The Releases deferred on the path of a successful lookup: line 332 and
\* line 383, both of the volume ID.
DVDeferredAfterLookup(u, n) == {IDKey(u)}

\* The Releases deferred on the garbage-collection path: lines 332 and 370.
DVDeferredGC(u, n) == {IDKey(u), NameKey(n)}

\* Lines 352-356: ErrInvalidVolID with a metadata store configured hands the
\* request to deleteVolumeDeprecated.
DVDeprecatedAnyError(err, store) == store

DVDeprecated(err, store) == err = "InvalidVolID" /\ store

\* deleteVolumeDeprecated: the codes it can return for volume ID u.  The
\* metadata store has no entry or a statically provisioned one (OK), fails
\* (Internal), or the secrets hold no admin credentials (InvalidArgument);
\* then TryAcquire(volID) decides between Aborted and the outcome of the
\* purge of the 1.0.0 volume.
deleteVolumeDeprecated(locks, u) ==
  {"OK", "Internal", "InvalidArgument"}
  \cup (IF TryAcquire(locks, IDKey(u)) THEN {"OK", "Internal"} ELSE {"Aborted"})

\* Line 332: the Release of the volume ID deferred at entry.
DVDeferredNone(u) == {}

DVDeferredEntry(u) == {IDKey(u)}

\* Lines 367 and 380: the request proceeds to the purge or to the garbage
\* collection only when TryAcquire(volOptions.RequestName) succeeded.
DVNameLockIgnored(locks, n) == TRUE

DVNameLockAcquired(locks, n) == TryAcquire(locks, NameKey(n))

\* purgeVolume: the errors it can return for volume u.  A subvolume that is
\* not there is ErrVolumeNotFound, unless the command fails otherwise.
purgeVolumeErrors(u) ==
  IF subvol[u] = "none" THEN {"VolumeNotFound", "Other"} ELSE {"nil", "Other"}

\* Lines 393-400: of the errors of purgeVolume only ErrVolumeNotFound is
\* tolerated.
DVPurgeToleratesAll(err) == TRUE

DVPurgeTolerated(err) == err \in {"nil", "VolumeNotFound"}

\* Lines 318-332: entry and TryAcquire(volID).
DeleteVolumeStart(h, u) ==
  /\ pc[h] = "idle"
  /\ LET l == [IdleLoc EXCEPT !.op = "DeleteVolume", !.uuid = u] IN
     IF TryAcquire(VolumeLocks, IDKey(u))
       THEN /\ VolumeLocks' = Acquired(VolumeLocks, IDKey(u))
            /\ pc' = [pc EXCEPT ![h] = "dv_lookup"]
            /\ loc' = StartLoc(h, [l EXCEPT !.defers = DVDeferredEntry(u), !.prior = PriorOf(u)])
            /\ res' = res
            /\ committed' = [n \in Names |-> NoCommit]
       ELSE /\ pc' = [pc EXCEPT ![h] = "done"]
            /\ VolumeLocks' = VolumeLocks
            /\ loc' = [StartLoc(h, l) EXCEPT ![h] = IdleLoc]
            /\ res' = [res EXCEPT ![h] =
                 [NoRes EXCEPT !.op = "DeleteVolume", !.uuid = u, !.code = "Aborted",
                               !.err = "Busy",
                               !.solo = \A y \in Handlers \ {h} : ~InFlight(y)]]
            /\ committed' = committed
  /\ JournalUnchanged /\ BackingUnchanged /\ EnvUnchanged

\* Lines 334-376: newVolumeOptionsFromVolID and the classification of its error.
DeleteVolumeLookup(h) ==
  /\ pc[h] = "dv_lookup"
  /\ LET u == loc[h].uuid IN
     \E e \in LookupErrors(u) :
     \E store \in BOOLEAN :
       LET l == [loc[h] EXCEPT !.lk = e, !.err = e,
                               !.name = IF u \in UUIDs THEN rev[u] ELSE NoName] IN
       IF e = "nil"
         THEN /\ pc' = [pc EXCEPT ![h] = "dv_lockname"]
              /\ loc' = [loc EXCEPT ![h] = l]
              /\ UNCHANGED <<VolumeLocks, res>>
       ELSE IF DVAlreadyDeleted(e)
         THEN Finish(h, l, "OK", VolumeLocks, fwd, rev)
       ELSE IF DVDeprecated(e, store)
         THEN \E code \in deleteVolumeDeprecated(VolumeLocks, u) :
                Finish(h, [l EXCEPT !.legacy = TRUE], code, VolumeLocks, fwd, rev)
       ELSE IF ~DVNeedsGC(e)
         THEN Finish(h, l, "Internal", VolumeLocks, fwd, rev)
       ELSE /\ pc' = [pc EXCEPT ![h] = "dv_gc_lock"]
            /\ loc' = [loc EXCEPT ![h] = l]
            /\ UNCHANGED <<VolumeLocks, res>>
  /\ JournalUnchanged /\ BackingUnchanged /\ EnvUnchanged
  /\ UNCHANGED committed

\* Lines 367-370 and 380-383: TryAcquire(volOptions.RequestName), and the
\* Release deferred after it.
DeleteVolumeLockName(h) ==
  /\ pc[h] \in {"dv_lockname", "dv_gc_lock"}
  /\ LET u == loc[h].uuid
         n == loc[h].name IN
     IF DVNameLockAcquired(VolumeLocks, n)
       THEN /\ VolumeLocks' = Acquired(VolumeLocks, NameKey(n))
            /\ pc' = [pc EXCEPT ![h] = IF pc[h] = "dv_gc_lock" THEN "undo1" ELSE "dv_purge"]
            /\ loc' = [loc EXCEPT ![h].defers = loc[h].defers \cup
                                                  (IF pc[h] = "dv_gc_lock"
                                                     THEN DVDeferredGC(u, n)
                                                     ELSE DVDeferredAfterLookup(u, n))]
            /\ res' = res
       ELSE Finish(h, [loc[h] EXCEPT !.err = "Busy"], "Aborted", VolumeLocks, fwd, rev)
  /\ JournalUnchanged /\ BackingUnchanged /\ EnvUnchanged
  /\ UNCHANGED committed

\* Lines 385-400: NewAdminCredentials (a failure is InvalidArgument), then
\* purgeVolume; ErrVolumeNotFound is tolerated, any other error is returned
\* as Internal.
DeleteVolumePurge(h) ==
  /\ pc[h] = "dv_purge"
  /\ LET u == loc[h].uuid IN
     \E creds \in BOOLEAN, e \in purgeVolumeErrors(u) :
       IF ~creds
         THEN /\ subvol' = subvol
              /\ Finish(h, [loc[h] EXCEPT !.err = "BadSecrets"], "InvalidArgument",
                        VolumeLocks, fwd, rev)
       ELSE IF DVPurgeTolerated(e)
         THEN /\ subvol' = IF e = "nil" THEN [subvol EXCEPT ![u] = "none"] ELSE subvol
              /\ pc' = [pc EXCEPT ![h] = "undo1"]
              /\ loc' = [loc EXCEPT ![h].purge = e]
              /\ UNCHANGED <<VolumeLocks, res>>
         ELSE /\ subvol' = subvol
              /\ Finish(h, [loc[h] EXCEPT !.err = "Other", !.purge = e], "Internal",
                        VolumeLocks, fwd, rev)
  /\ JournalUnchanged /\ EnvUnchanged
  /\ UNCHANGED <<tmpsnap, committed>>

\* --------------------------------------------------- ControllerExpandVolume
\* Lines 439-444: the request proceeds only when TryAcquire(volID) succeeded.
EXLockIgnored(locks, u) == TRUE

EXLockAcquired(locks, u) == TryAcquire(locks, IDKey(u))

\* util.RoundOffBytes: the requested bytes rounded up to the next multiple
\* of the allocation unit.
RoundUnit == 2
RoundOffBytes(b) == ((b + RoundUnit - 1) \div RoundUnit) * RoundUnit

\* Lines 466-469: the capacity of the response is the rounded size that
\* resizeVolume was called with.
EXCapacityRequested(roundOffSize, requiredBytes) == requiredBytes

EXCapacity(roundOffSize, requiredBytes) == roundOffSize

RequestBytes == 0..MaxBytes

\* Lines 430-444: entry and TryAcquire(volID).
ControllerExpandVolumeStart(h, u) ==
  /\ pc[h] = "idle"
  /\ LET l == [IdleLoc EXCEPT !.op = "ControllerExpandVolume", !.uuid = u] IN
     IF EXLockAcquired(VolumeLocks, u)
       THEN /\ VolumeLocks' = Acquired(VolumeLocks, IDKey(u))
            /\ pc' = [pc EXCEPT ![h] = "ex_lookup"]
            /\ loc' = StartLoc(h, [l EXCEPT !.defers = {IDKey(u)}])
            /\ res' = res
       ELSE /\ pc' = [pc EXCEPT ![h] = "done"]
            /\ VolumeLocks' = VolumeLocks
            /\ loc' = [StartLoc(h, l) EXCEPT ![h] = IdleLoc]
            /\ res' = [res EXCEPT ![h] =
                 [NoRes EXCEPT !.op = "ControllerExpandVolume", !.uuid = u,
                               !.code = "Aborted", !.err = "Busy",
                               !.solo = \A y \in Handlers \ {h} : ~InFlight(y)]]
  /\ JournalUnchanged /\ BackingUnchanged /\ EnvUnchanged
  /\ UNCHANGED committed

\* Lines 446-457: NewAdminCredentials and newVolumeOptionsFromVolID; a
\* failure of either is InvalidArgument.
ControllerExpandVolumeLookup(h) ==
  /\ pc[h] = "ex_lookup"
  /\ LET u == loc[h].uuid IN
     \E creds \in BOOLEAN, e \in LookupErrors(u) :
       IF ~creds
         THEN Finish(h, [loc[h] EXCEPT !.err = "BadSecrets"], "InvalidArgument",
                     VolumeLocks, fwd, rev)
       ELSE IF e # "nil"
         THEN Finish(h, [loc[h] EXCEPT !.lk = e, !.err = e], "InvalidArgument",
                     VolumeLocks, fwd, rev)
       ELSE /\ pc' = [pc EXCEPT ![h] = "ex_resize"]
            /\ UNCHANGED <<VolumeLocks, loc, res>>
  /\ JournalUnchanged /\ BackingUnchanged /\ EnvUnchanged
  /\ UNCHANGED committed

\* Lines 459-469: RoundOffBytes of the required bytes, resizeVolume to the
\* rounded size (a failure is Internal), and the response.
ControllerExpandVolumeResize(h) ==
  /\ pc[h] = "ex_resize"
  /\ LET u == loc[h].uuid IN
     \E requiredBytes \in RequestBytes, ok \in BOOLEAN :
       LET RoundOffSize == RoundOffBytes(requiredBytes)
           o == [NoOut EXCEPT !.bytes = requiredBytes] IN
       IF ok /\ poolPresent /\ subvol[u] # "none"
         THEN Finish(h, [loc[h] EXCEPT !.out =
                           [o EXCEPT !.resized = RoundOffSize,
                                     !.cap = EXCapacity(RoundOffSize, requiredBytes)]],
                     "OK", VolumeLocks, fwd, rev)
         ELSE Finish(h, [loc[h] EXCEPT !.err = "Other", !.out = o], "Internal",
                     VolumeLocks, fwd, rev)
  /\ JournalUnchanged /\ BackingUnchanged /\ EnvUnchanged
  /\ UNCHANGED committed

\* ----------------------------------------------- ValidateVolumeCapabilities
CapKinds == {"mount", "block"}
RECURSIVE SeqsOver(_, _)
SeqsOver(S, n) ==
  IF n = 0 THEN {<<>>}
  ELSE SeqsOver(S, n - 1) \cup {Append(q, x) : q \in {r \in SeqsOver(S, n - 1) : Len(r) = n - 1}, x \in S}
CapLists == SeqsOver(CapKinds, MaxCaps)

\* Lines 417-421: the loop over req.VolumeCapabilities stops at the first
\* capability with cap.GetBlock() != nil.
FirstIsBlock(caps, i) == i <= Len(caps) /\ caps[i] = "block"

RECURSIVE AnyBlock(_, _)
AnyBlock(caps, i) ==
  IF i > Len(caps) THEN FALSE
  ELSE IF caps[i] = "block" THEN TRUE
  ELSE AnyBlock(caps, i + 1)

\* Lines 413-427: no lock is taken and the volume ID is not read; the
\* response is empty when a capability is a block capability, else it
\* confirms the requested capabilities.
ValidateVolumeCapabilities(h, u, caps) ==
  /\ pc[h] = "idle"
  /\ pc' = [pc EXCEPT ![h] = "done"]
  /\ res' = [res EXCEPT ![h] =
       [NoRes EXCEPT !.op = "ValidateVolumeCapabilities", !.uuid = u, !.code = "OK",
                     !.out = IF AnyBlock(caps, 1)
                               THEN [NoOut EXCEPT !.caps = caps]
                               ELSE [NoOut EXCEPT !.caps = caps, !.confirmed = TRUE,
                                                  !.conf = caps],
                     !.solo = \A y \in Handlers \ {h} : ~InFlight(y)]]
  /\ UNCHANGED <<VolumeLocks, loc, committed>>
  /\ JournalUnchanged /\ BackingUnchanged /\ EnvUnchanged

\* ------------------------------------------------------------- environment
\* The caller has received the response; the handler is free again.
Return(h) ==
  /\ pc[h] = "done"
  /\ pc' = [pc EXCEPT ![h] = "idle"]
  /\ res' = [res EXCEPT ![h] = NoRes]
  /\ UNCHANGED <<VolumeLocks, loc, committed>>
  /\ JournalUnchanged /\ BackingUnchanged /\ EnvUnchanged

\* The controller process crashes and restarts: every handler is gone and
\* the in-memory lock map is empty; the journal and the backing store remain.
Crash ==
  /\ \E h \in Handlers : InFlight(h)
  /\ pc' = [h \in Handlers |-> "idle"]
  /\ loc' = [h \in Handlers |-> IdleLoc]
  /\ res' = [h \in Handlers |-> NoRes]
  /\ VolumeLocks' = {}
  /\ UNCHANGED committed
  /\ JournalUnchanged /\ BackingUnchanged /\ EnvUnchanged

\* A clone in progress completes on the storage cluster.
CloneCompletes(u) ==
  /\ subvol[u] = "inprogress"
  /\ subvol' = [subvol EXCEPT ![u] = "complete"]
  /\ UNCHANGED <<VolumeLocks, tmpsnap, pc, loc, res, committed>>
  /\ JournalUnchanged /\ EnvUnchanged

\* The pool is removed independently: its journals, volumes and snapshots
\* go with it.
RemovePool ==
  /\ poolPresent
  /\ poolPresent' = FALSE
  /\ fwd' = [n \in Names |-> NoUUID]
  /\ rev' = [u \in UUIDs |-> NoName]
  /\ subvol' = [u \in UUIDs |-> "none"]
  /\ tmpsnap' = [u \in UUIDs |-> "none"]
  /\ committed' = [n \in Names |-> NoCommit]
  /\ snapJournal' = [snapJournal EXCEPT
                       !.fwd = [n \in DOMAIN snapJournal.fwd |-> NoUUID],
                       !.rev = [s \in DOMAIN snapJournal.rev |-> NoName]]
  /\ snaps' = [s \in DOMAIN snaps |-> [st |-> "none", src |-> NoUUID]]
  /\ UNCHANGED <<VolumeLocks, nextUUID, pc, loc, res, caller>>
  /\ UNCHANGED <<clusterMapping, journalAt, rq, csiID, SnapshotLocks, sop, cloneOp>>

\* ------------------------------------------- Cluster/Pool Mapping Resolver
\* The controller's variables are left alone by the resolver and the codec.
ControllerUnchanged ==
  UNCHANGED <<VolumeLocks, fwd, rev, subvol, tmpsnap, poolPresent, nextUUID,
              pc, loc, res, committed, caller,
              SnapshotLocks, snapJournal, snaps, sop, cloneOp>>

Clusters == {"A", "B", "C"}
PoolIDs == {2, 3}
StorageKinds == {"RBD", "CephFS"}
Requests == 1..NumRequests

\* One entry of the mapping configuration: localClusterID, remoteClusterID
\* and one pool-ID table per storage kind, as <<localPoolID, remotePoolID>>.
ClaimMapping == <<[local |-> "A", remote |-> "B", RBD |-> {<<2, 3>>}, CephFS |-> {}]>>
MappingConfigs ==
  { <<>>,
    ClaimMapping,
    <<[local |-> "A", remote |-> "B", RBD |-> {<<2, 2>>}, CephFS |-> {<<2, 3>>, <<3, 2>>}]>>,
    <<[local |-> "B", remote |-> "C", RBD |-> {<<3, 2>>}, CephFS |-> {}],
      [local |-> "A", remote |-> "B", RBD |-> {<<2, 3>>, <<3, 2>>}, CephFS |-> {<<3, 3>>}]>> }

\* Where the journal may hold the record of the volume the handle names.
RecordPlaces == SUBSET {<<"A", 2>>, <<"B", 3>>, <<"B", 2>>}

NoTarget == <<"none", 0>>

\* The entry for a local clusterID: the first one of the array.
MappingEntries(m, c) == {i \in 1..Len(m) : m[i].local = c}
GetMappedClusterID(m, c) ==
  IF MappingEntries(m, c) = {} THEN "none"
  ELSE m[CHOOSE i \in MappingEntries(m, c) : \A j \in MappingEntries(m, c) : i <= j].remote

\* The pool-ID table of a storage kind in the entry for c.
PoolTable(m, c, kind) ==
  LET e == m[CHOOSE i \in MappingEntries(m, c) : \A j \in MappingEntries(m, c) : i <= j]
  IN IF kind = "RBD" THEN e.RBD ELSE e.CephFS

MappedPoolIdentity(table, p) == p

\* The remote pool ID of local pool p in a table, 0 when it has none.
GetMappedPoolID(table, p) ==
  IF \E pr \in table : pr[1] = p
  THEN (CHOOSE pr \in table : pr[1] = p)[2]
  ELSE 0

\* Resolver: the translated <<clusterID, poolID>>, NoTarget without a mapping.
Resolve(m, kind, c, p) ==
  IF GetMappedClusterID(m, c) = "none" THEN NoTarget
  ELSE IF GetMappedPoolID(PoolTable(m, c, kind), p) = 0 THEN NoTarget
  ELSE <<GetMappedClusterID(m, c), GetMappedPoolID(PoolTable(m, c, kind), p)>>

ResolverMissDistinct == "MappingNotFound"

\* What the Resolver returns without a mapping entry: not-found.
ResolverMiss == "KeyNotFound"

ConsultOnAnyError(e) == e # "nil"

\* The Resolver is consulted after a Lookup that returned not-found.
ShouldConsult(e) == e = "KeyNotFound"

IdleRq ==
  [pc |-> "idle", kind |-> "RBD", cluster |-> "none", pool |-> 0, tried |-> <<>>,
   consulted |-> 0, target |-> NoTarget, err |-> "none"]

\* One Lookup at <<clusterID, poolID>>: found, not-found or another error.
LookupAt(at, ok) == GetOMapValue(TRUE, ok, at \in journalAt)

\* An operation arrives with a decoded handle.
ResolveStart(r, kind, c, p) ==
  /\ rq[r].pc = "idle"
  /\ rq' = [rq EXCEPT ![r] = [IdleRq EXCEPT !.pc = "lookup", !.kind = kind,
                                            !.cluster = c, !.pool = p]]
  /\ UNCHANGED <<clusterMapping, journalAt, csiID>>
  /\ ControllerUnchanged

\* The direct Lookup with the handle's embedded clusterID and poolID.
DirectLookup(r) ==
  /\ rq[r].pc = "lookup"
  /\ \E ok \in BOOLEAN :
       LET at == <<rq[r].cluster, rq[r].pool>>
           e == LookupAt(at, ok)
       IN rq' = [rq EXCEPT ![r].tried = Append(@, [at |-> at, err |-> e]),
                           ![r].pc = IF ShouldConsult(e) THEN "resolve" ELSE "done",
                           ![r].err = IF ShouldConsult(e) THEN "none" ELSE e]
  /\ UNCHANGED <<clusterMapping, journalAt, csiID>>
  /\ ControllerUnchanged

\* The Resolver reads the mapping configuration as it is now.
ConsultResolver(r) ==
  /\ rq[r].pc = "resolve"
  /\ LET t == Resolve(clusterMapping, rq[r].kind, rq[r].cluster, rq[r].pool)
     IN rq' = [rq EXCEPT ![r].consulted = @ + 1,
                         ![r].target = t,
                         ![r].pc = IF t = NoTarget THEN "done" ELSE "retry",
                         ![r].err = IF t = NoTarget THEN ResolverMiss ELSE "none"]
  /\ UNCHANGED <<clusterMapping, journalAt, csiID>>
  /\ ControllerUnchanged

\* The one retry of the Lookup, with the translated clusterID and poolID.
RetryLookup(r) ==
  /\ rq[r].pc = "retry"
  /\ \E ok \in BOOLEAN :
       LET e == LookupAt(rq[r].target, ok)
       IN rq' = [rq EXCEPT ![r].tried = Append(@, [at |-> rq[r].target, err |-> e]),
                           ![r].pc = "done",
                           ![r].err = e]
  /\ UNCHANGED <<clusterMapping, journalAt, csiID>>
  /\ ControllerUnchanged

\* The operation returns; the request slot is free again.
ResolveReturn(r) ==
  /\ rq[r].pc = "done"
  /\ rq' = [rq EXCEPT ![r] = IdleRq]
  /\ UNCHANGED <<clusterMapping, journalAt, csiID>>
  /\ ControllerUnchanged

\* The mapping configuration is reloaded out-of-band.
ReloadMapping ==
  /\ \E m \in MappingConfigs \ {clusterMapping} : clusterMapping' = m
  /\ UNCHANGED <<journalAt, rq, csiID>>
  /\ ControllerUnchanged

\* --------------------------------------------------------- Identifier Codec
\* Strings are sequences of one-character strings, so that fields can be cut
\* by position as the layout prescribes.
HexDigits == <<"0", "1", "2", "3", "4", "5", "6", "7", "8", "9", "a", "b", "c", "d", "e", "f">>
VersionWidth == 4
LengthWidth == 4
PoolIDWidth == 16
UUIDWidth == 36
MaxClusterIDLen == 36
\* 4+1+4+1+1+16+1+36: the fixed fields and the four separators.
KnownFieldSize == 64
SupportedVersions == {1}

\* n as w lower-case hexadecimal digits, most significant first.
RECURSIVE ToHex(_, _)
ToHex(n, w) ==
  IF w = 0 THEN <<>> ELSE Append(ToHex(n \div 16, w - 1), HexDigits[(n % 16) + 1])

HexValue(ch) ==
  IF \E i \in 1..16 : HexDigits[i] = ch THEN (CHOOSE i \in 1..16 : HexDigits[i] = ch) - 1
  ELSE -1

\* The value of a hexadecimal field, -1 when a character is not a digit.
RECURSIVE ParseHex(_)
ParseHex(s) ==
  IF s = <<>> THEN 0
  ELSE LET hi == ParseHex(SubSeq(s, 1, Len(s) - 1))
           d == HexValue(s[Len(s)])
       IN IF hi < 0 \/ d < 0 THEN -1 ELSE hi * 16 + d

RookCeph == <<"r", "o", "o", "k", "-", "c", "e", "p", "h">>
KubeSystem == <<"k", "u", "b", "e", "-", "s", "y", "s", "t", "e", "m">>
Fsid ==
  <<"4", "e", "5", "f", "9", "a", "1", "c", "-", "9", "b", "1", "d", "-", "4", "c", "8",
    "e", "-", "a", "7", "f", "3", "-", "6", "d", "2", "b", "0", "c", "1", "e", "8", "f",
    "5", "5">>
TooLongClusterID ==
  <<"x", "x", "x", "x", "x", "x", "x", "x", "x", "x", "x", "x", "x", "x", "x", "x", "x",
    "x", "x", "x", "-", "y", "y", "y", "y", "y", "y", "y", "y", "y", "y", "y", "y", "y",
    "y", "y", "y">>
SampleUUID ==
  <<"b", "0", "2", "8", "5", "c", "9", "7", "-", "a", "0", "c", "e", "-", "1", "1", "e",
    "b", "-", "8", "c", "6", "6", "-", "0", "2", "4", "2", "a", "c", "1", "1", "0", "0",
    "0", "2">>
OtherUUID ==
  <<"0", "0", "0", "0", "0", "0", "0", "0", "-", "0", "0", "0", "0", "-", "4", "0", "0",
    "0", "-", "8", "0", "0", "0", "-", "0", "0", "0", "0", "0", "0", "0", "0", "f", "f",
    "f", "f">>
SampleHandle ==
  <<"0", "0", "0", "1", "-", "0", "0", "0", "9", "-", "r", "o", "o", "k", "-", "c", "e",
    "p", "h", "-", "0", "0", "0", "0", "0", "0", "0", "0", "0", "0", "0", "0", "0", "0",
    "0", "2", "-", "b", "0", "2", "8", "5", "c", "9", "7", "-", "a", "0", "c", "e", "-",
    "1", "1", "e", "b", "-", "8", "c", "6", "6", "-", "0", "2", "4", "2", "a", "c", "1",
    "1", "0", "0", "0", "2">>

ClusterIDs == {<<"a">>, RookCeph, KubeSystem, Fsid, TooLongClusterID}
\* Pool IDs are 64-bit in the handle; the model keeps them below 2^31.
CodecPoolIDs == {0, 2, 255, 4096, 2147483647}
ObjectUUIDs == {SampleUUID, OtherUUID}
Versions == {1, 2}
Identifiers ==
  [version : Versions, clusterID : ClusterIDs, poolID : CodecPoolIDs, objectUUID : ObjectUUIDs]

InvalidVolumeID == [ok |-> FALSE, err |-> "InvalidVolumeID"]

\* encode: version, clusterID length, clusterID, poolID and UUID, each
\* followed by '-' but the last.
encode(id) ==
  IF Len(id.clusterID) > MaxClusterIDLen \/ Len(id.objectUUID) # UUIDWidth
  THEN [ok |-> FALSE, err |-> "InvalidVolumeID"]
  ELSE [ok |-> TRUE,
        handle |-> ToHex(id.version, VersionWidth) \o <<"-">>
                   \o ToHex(Len(id.clusterID), LengthWidth) \o <<"-">>
                   \o id.clusterID \o <<"-">>
                   \o ToHex(id.poolID, PoolIDWidth) \o <<"-">>
                   \o id.objectUUID]

ClusterIDUpToDash(s, n) ==
  (CHOOSE i \in (VersionWidth + LengthWidth + 3)..Len(s) :
     s[i] = "-" /\ \A j \in (VersionWidth + LengthWidth + 3)..(i - 1) : s[j] # "-")
  - (VersionWidth + LengthWidth + 3)

\* The number of clusterID bytes in handle s: what its length field says.
ClusterIDLength(s, n) == n

\* decode: cut the fields at the positions the length field implies.
decode(s) ==
  IF Len(s) < VersionWidth + LengthWidth + 2 THEN InvalidVolumeID
  ELSE
    LET version == ParseHex(SubSeq(s, 1, VersionWidth))
        n == ClusterIDLength(s, ParseHex(SubSeq(s, VersionWidth + 2, VersionWidth + LengthWidth + 1)))
        c0 == VersionWidth + LengthWidth + 3
        p0 == c0 + n + 1
        u0 == p0 + PoolIDWidth + 1
    IN IF \/ version \notin SupportedVersions
          \/ n < 0 \/ n > MaxClusterIDLen
          \/ Len(s) # KnownFieldSize + n
       THEN InvalidVolumeID
       ELSE IF \/ s[VersionWidth + 1] # "-" \/ s[c0 - 1] # "-"
               \/ s[p0 - 1] # "-" \/ s[u0 - 1] # "-"
               \/ ParseHex(SubSeq(s, p0, p0 + PoolIDWidth - 1)) < 0
            THEN InvalidVolumeID
            ELSE [ok |-> TRUE,
                  id |-> [version |-> version,
                          clusterID |-> SubSeq(s, c0, c0 + n - 1),
                          poolID |-> ParseHex(SubSeq(s, p0, p0 + PoolIDWidth - 1)),
                          objectUUID |-> SubSeq(s, u0, Len(s))]]

NoCsiID == [st |-> "none", id |-> <<>>, enc |-> <<>>, dec |-> <<>>]

\* The identifier is encoded into a handle, or refused.
Encode ==
  /\ csiID.st = "new"
  /\ csiID' = [csiID EXCEPT !.st = IF encode(csiID.id).ok THEN "encoded" ELSE "refused",
                            !.enc = encode(csiID.id)]
  /\ UNCHANGED <<clusterMapping, journalAt, rq>>
  /\ ControllerUnchanged

\* The handle comes back with a later request and is decoded.
Decode ==
  /\ csiID.st = "encoded"
  /\ csiID' = [csiID EXCEPT !.st = "decoded", !.dec = decode(csiID.enc.handle)]
  /\ UNCHANGED <<clusterMapping, journalAt, rq>>
  /\ ControllerUnchanged

\* ------------------------------------------------------ snapshot operations
\* Number of concurrent CreateSnapshot / DeleteSnapshot handlers.
NumSnapHandlers == 2
\* Number of snapshot IDs the snapshot journal can hand out in one run.
MaxSnap == 1

SnapHandlers == 1..NumSnapHandlers
SnapIDs == 1..MaxSnap
\* Snapshot request names chosen by the container orchestrator.
SnapNames == {"snap-1"}
\* The volumes a CreateSnapshot request names as its source.
SnapSources == {1}
NoSnap == [st |-> "none", src |-> NoUUID]

IdleSop == [pc |-> "idle", op |-> "none", name |-> NoName, sid |-> NoUUID,
            src |-> NoUUID, err |-> "nil", code |-> "none", held |-> {},
            defers |-> {}, calls |-> <<>>, rbFault |-> FALSE]

EmptySnapJournal == [fwd |-> [n \in SnapNames |-> NoUUID],
                     rev |-> [s \in SnapIDs |-> NoName],
                     next |-> 1]

\* The controller's volume side, the resolver, the codec and the clone
\* operation are left alone by the snapshot handlers.
VolumeUnchanged ==
  UNCHANGED <<VolumeLocks, fwd, rev, subvol, tmpsnap, poolPresent, nextUUID,
              pc, loc, res, committed, caller>>

ResolverCodecUnchanged == UNCHANGED <<clusterMapping, journalAt, rq, csiID>>

OffSnapUnchanged == VolumeUnchanged /\ ResolverCodecUnchanged /\ UNCHANGED cloneOp

SnapInFlight(h) == sop[h].pc \notin {"idle", "done"}

\* The return of a snapshot handler: the deferred Release calls run.
SnapFinish(h, o, code) ==
  /\ sop' = [sop EXCEPT ![h] = [o EXCEPT !.pc = "done", !.code = code,
                                         !.held = o.held \ o.defers,
                                         !.defers = {}]]
  /\ SnapshotLocks' = SnapshotLocks \ o.defers

SnapGoto(h, o, p) ==
  /\ sop' = [sop EXCEPT ![h] = [o EXCEPT !.pc = p]]
  /\ SnapshotLocks' = SnapshotLocks

\* newSnapshotOptionsFromID: the failure class for snapshot ID s.
SnapLookup(s) ==
  IF ~poolPresent THEN "PoolNotFound"
  ELSE IF snapJournal.rev[s] = NoName THEN "KeyNotFound"
  ELSE IF snaps[s].st = "none" THEN "SnapNotFound"
  ELSE "nil"

SnapLookupErrors(s) == {SnapLookup(s), "Other"}

\* undoSnapReservation: both journal entries of snapshot s are removed.
Unreserved(j, s) ==
  [j EXCEPT !.rev[s] = NoName,
            !.fwd = [n \in SnapNames |-> IF j.fwd[n] = s THEN NoUUID ELSE j.fwd[n]]]

\* reserveSnap: the next snapshot ID is recorded under the request name.
Reserved(j, n) ==
  [j EXCEPT !.rev[j.next] = n, !.fwd[n] = j.next, !.next = j.next + 1]

\* Lines 475-486: entry of CreateSnapshot and TryAcquire(requestName) on
\* cs.SnapshotLocks.  No lock is taken on the source volume (line 487).
CSDeferredNone(n) == {}

CSDeferredEntry(n) == {NameKey(n)}

CreateSnapshotStart(h, n, v) ==
  /\ sop[h].pc = "idle"
  /\ LET o == [IdleSop EXCEPT !.op = "CreateSnapshot", !.name = n, !.src = v] IN
     IF TryAcquire(SnapshotLocks, NameKey(n))
       THEN /\ SnapshotLocks' = Acquired(SnapshotLocks, NameKey(n))
            /\ sop' = [sop EXCEPT ![h] = [o EXCEPT !.pc = "cs_lookup",
                                                   !.held = {NameKey(n)},
                                                   !.defers = CSDeferredEntry(n)]]
       ELSE SnapFinish(h, [o EXCEPT !.err = "Busy"], "Aborted")
  /\ UNCHANGED <<snapJournal, snaps>>
  /\ OffSnapUnchanged

\* Lines 489-503: newVolumeOptionsFromVolID of the source volume; a pool or
\* a volume that is not there is NotFound, any other error Internal.
CSLookupCode(e) == IF e \in {"PoolNotFound", "VolumeNotFound"} THEN "NotFound" ELSE "Internal"

CreateSnapshotLookup(h) ==
  /\ sop[h].pc = "cs_lookup"
  /\ \E e \in LookupErrors(sop[h].src) :
       IF e = "nil"
         THEN SnapGoto(h, sop[h], "cs_check")
         ELSE SnapFinish(h, [sop[h] EXCEPT !.err = e], CSLookupCode(e))
  /\ UNCHANGED <<snapJournal, snaps>>
  /\ OffSnapUnchanged

\* Lines 505-540: checkSnapExists, then the credentials and getSubVolumeInfo.
\* A reservation whose snapshot exists is returned as the snapshot; the
\* journal is only read.
CSNeverReturnExisting(j, n) == FALSE

CSReturnExisting(j, n) == j.fwd[n] # NoUUID /\ snaps[j.fwd[n]].st # "none"

CreateSnapshotCheck(h) ==
  /\ sop[h].pc = "cs_check"
  /\ LET o == sop[h] IN
     \E ok \in CallOutcomes, info \in {"nil", "InvalidCommand", "Other"} :
       IF ~ok
         THEN SnapFinish(h, [o EXCEPT !.err = "Other"], "Internal")
       ELSE IF CSReturnExisting(snapJournal, o.name)
         THEN SnapFinish(h, [o EXCEPT !.sid = snapJournal.fwd[o.name]], "OK")
       ELSE IF info = "nil"
         THEN SnapGoto(h, o, "cs_reserve")
       ELSE SnapFinish(h, [o EXCEPT !.err = info],
                       IF info = "InvalidCommand" THEN "FailedPrecondition"
                                                  ELSE "Internal")
  /\ UNCHANGED <<snapJournal, snaps>>
  /\ OffSnapUnchanged

\* Lines 542-554: reserveSnap, and the deferred undoSnapReservation.  A
\* forward entry for the request name is a replayed request and its ID is
\* returned; else the next ID is reserved.
CreateSnapshotReserve(h) ==
  /\ sop[h].pc = "cs_reserve"
  /\ LET o == sop[h]
         s == snapJournal.fwd[o.name] IN
     \E ok \in CallOutcomes :
       IF ok /\ s # NoUUID
         THEN /\ snapJournal' = snapJournal
              /\ SnapGoto(h, [o EXCEPT !.sid = s, !.calls = Append(o.calls, "reserveSnap")],
                          "cs_snap")
       ELSE IF ok /\ snapJournal.next \in SnapIDs
         THEN /\ snapJournal' = Reserved(snapJournal, o.name)
              /\ SnapGoto(h, [o EXCEPT !.sid = snapJournal.next,
                                       !.calls = Append(o.calls, "reserveSnap")],
                          "cs_snap")
       ELSE /\ snapJournal' = snapJournal
            /\ SnapFinish(h, [o EXCEPT !.err = "Other",
                                       !.calls = Append(o.calls, "reserveSnap")],
                          "Internal")
  /\ UNCHANGED snaps
  /\ OffSnapUnchanged

\* Lines 572-618 (doSnapshot): createSnapshot, getSnapshotInfo and
\* protectSnapshot; a failure after createSnapshot deletes the snapshot,
\* best effort.  The outcomes [err, st, calls].
doSnapshot(v) ==
  {[err |-> "Other", st |-> "none", rb |-> FALSE, calls |-> <<"createSnapshot">>]}
  \cup
  (IF subvol[v] = "none" \/ ~poolPresent THEN {} ELSE
    {[err |-> "Other", st |-> IF del THEN "none" ELSE "created", rb |-> ~del,
      calls |-> <<"createSnapshot", "getSnapshotInfo", "deleteSnapshot">>]
       : del \in BOOLEAN}
    \cup
    {[err |-> "Other", st |-> IF del THEN "none" ELSE "created", rb |-> ~del,
      calls |-> <<"createSnapshot", "getSnapshotInfo", "protectSnapshot",
                  "deleteSnapshot">>]
       : del \in BOOLEAN}
    \cup
    {[err |-> "nil", st |-> "protected", rb |-> FALSE,
      calls |-> <<"createSnapshot", "getSnapshotInfo", "protectSnapshot">>]})

\* Lines 546-548: the reservation is undone on the return when err is set.
CSUndoNever(err) == FALSE

CSUndoOnError(err) == err # "nil"

\* Lines 556-569: doSnapshot; its error is Internal, after the deferred
\* undoSnapReservation.
CreateSnapshotDo(h) ==
  /\ sop[h].pc = "cs_snap"
  /\ LET o == sop[h] IN
     \E r \in doSnapshot(o.src) :
       /\ snaps' = [snaps EXCEPT ![o.sid] =
                      IF r.st = "none" THEN NoSnap ELSE [st |-> r.st, src |-> o.src]]
       /\ IF r.err = "nil"
            THEN SnapFinish(h, [o EXCEPT !.calls = o.calls \o r.calls], "OK")
            ELSE IF CSUndoOnError(r.err)
              THEN SnapGoto(h, [o EXCEPT !.err = r.err, !.rbFault = r.rb,
                                          !.calls = o.calls \o r.calls],
                            "cs_undo")
            ELSE SnapFinish(h, [o EXCEPT !.err = r.err, !.rbFault = r.rb,
                                          !.calls = o.calls \o r.calls],
                            "Internal")
  /\ UNCHANGED snapJournal
  /\ OffSnapUnchanged

\* Lines 549-554: the deferred undoSnapReservation of CreateSnapshot; its
\* own error is logged only.
CreateSnapshotUndo(h) ==
  /\ sop[h].pc = "cs_undo"
  /\ LET o == sop[h] IN
     \E ok \in CallOutcomes :
       /\ snapJournal' = IF ok THEN Unreserved(snapJournal, o.sid) ELSE snapJournal
       /\ SnapFinish(h, [o EXCEPT !.calls = Append(o.calls, "undoSnapReservation"),
                                  !.rbFault = o.rbFault \/ ~ok],
                     "Internal")
  /\ UNCHANGED snaps
  /\ OffSnapUnchanged

\* Lines 639-659: entry of DeleteSnapshot; the credentials (a failure is
\* InvalidArgument), then TryAcquire(snapshotID) on cs.SnapshotLocks.
DSDeferredNone(s) == {}

DSDeferredEntry(s) == {IDKey(s)}

DeleteSnapshotStart(h, s) ==
  /\ sop[h].pc = "idle"
  /\ LET o == [IdleSop EXCEPT !.op = "DeleteSnapshot", !.sid = s] IN
     \E creds \in BOOLEAN :
       IF ~creds
         THEN SnapFinish(h, [o EXCEPT !.err = "Other"], "InvalidArgument")
       ELSE IF TryAcquire(SnapshotLocks, IDKey(s))
         THEN /\ SnapshotLocks' = Acquired(SnapshotLocks, IDKey(s))
              /\ sop' = [sop EXCEPT ![h] = [o EXCEPT !.pc = "ds_lookup",
                                                     !.held = {IDKey(s)},
                                                     !.defers = DSDeferredEntry(s)]]
       ELSE SnapFinish(h, [o EXCEPT !.err = "Busy"], "Aborted")
  /\ UNCHANGED <<snapJournal, snaps>>
  /\ OffSnapUnchanged

\* Lines 661-689: newSnapshotOptionsFromID and the classification of its
\* error: a pool or a key that is not there is success, a snapshot that is
\* not there goes on to the removal of its reservation, any other error is
\* Internal.
DSOnlyPoolGone(e) == e = "PoolNotFound"

DSAlreadyDeleted(e) == e \in {"PoolNotFound", "KeyNotFound"}

DSNeedsGC(e) == e = "SnapNotFound"

DeleteSnapshotLookup(h) ==
  /\ sop[h].pc = "ds_lookup"
  /\ LET o == sop[h] IN
     \E e \in SnapLookupErrors(o.sid) :
       LET l == [o EXCEPT !.err = e, !.name = snapJournal.rev[o.sid]] IN
       IF e = "nil" THEN SnapGoto(h, l, "ds_lockname")
       ELSE IF DSAlreadyDeleted(e) THEN SnapFinish(h, l, "OK")
       ELSE IF DSNeedsGC(e) THEN SnapGoto(h, l, "ds_gc")
       ELSE SnapFinish(h, l, "Internal")
  /\ UNCHANGED <<snapJournal, snaps>>
  /\ OffSnapUnchanged

\* Lines 678-687: undoSnapReservation for a snapshot that is not there;
\* the request name is not locked on this path.
DeleteSnapshotGC(h) ==
  /\ sop[h].pc = "ds_gc"
  /\ LET o == [sop[h] EXCEPT !.calls = Append(sop[h].calls, "undoSnapReservation")] IN
     \E ok \in CallOutcomes :
       IF ok
         THEN /\ snapJournal' = Unreserved(snapJournal, o.sid)
              /\ SnapFinish(h, o, "OK")
         ELSE /\ snapJournal' = snapJournal
              /\ SnapFinish(h, o, "Internal")
  /\ UNCHANGED snaps
  /\ OffSnapUnchanged

\* Lines 691-697: TryAcquire(volOpt.RequestName) on cs.SnapshotLocks, and
\* the Release deferred after it.
DSNameLockIgnored(locks, n) == TRUE

DSNameLockAcquired(locks, n) == TryAcquire(locks, NameKey(n))

DeleteSnapshotLockName(h) ==
  /\ sop[h].pc = "ds_lockname"
  /\ LET o == sop[h] IN
     IF DSNameLockAcquired(SnapshotLocks, o.name)
       THEN /\ SnapshotLocks' = Acquired(SnapshotLocks, NameKey(o.name))
            /\ sop' = [sop EXCEPT ![h] = [o EXCEPT !.pc = "ds_unprotect",
                                                   !.held = o.held \cup {NameKey(o.name)},
                                                   !.defers = o.defers \cup {NameKey(o.name)}]]
       ELSE SnapFinish(h, [o EXCEPT !.err = "Busy"], "Aborted")
  /\ UNCHANGED <<snapJournal, snaps>>
  /\ OffSnapUnchanged

\* Lines 699-702: unprotectSnapshot; an error is Internal.
DeleteSnapshotUnprotect(h) ==
  /\ sop[h].pc = "ds_unprotect"
  /\ LET o == [sop[h] EXCEPT !.calls = Append(sop[h].calls, "unprotectSnapshot")] IN
     \E ok \in CallOutcomes :
       IF ok /\ snaps[o.sid].st # "none"
         THEN /\ snaps' = [snaps EXCEPT ![o.sid].st = "created"]
              /\ SnapGoto(h, o, "ds_delete")
         ELSE /\ snaps' = snaps
              /\ SnapFinish(h, [o EXCEPT !.err = "Other"], "Internal")
  /\ UNCHANGED snapJournal
  /\ OffSnapUnchanged

\* Lines 703-706: deleteSnapshot; an error is Internal.
DeleteSnapshotDelete(h) ==
  /\ sop[h].pc = "ds_delete"
  /\ LET o == [sop[h] EXCEPT !.calls = Append(sop[h].calls, "deleteSnapshot")] IN
     \E ok \in CallOutcomes :
       IF ok /\ snaps[o.sid].st = "created"
         THEN /\ snaps' = [snaps EXCEPT ![o.sid] = NoSnap]
              /\ SnapGoto(h, o, "ds_undo")
         ELSE /\ snaps' = snaps
              /\ SnapFinish(h, [o EXCEPT !.err = "Other"], "Internal")
  /\ UNCHANGED snapJournal
  /\ OffSnapUnchanged

\* Lines 707-714: undoSnapReservation; an error is Internal.
DeleteSnapshotUndo(h) ==
  /\ sop[h].pc = "ds_undo"
  /\ LET o == [sop[h] EXCEPT !.calls = Append(sop[h].calls, "undoSnapReservation")] IN
     \E ok \in CallOutcomes :
       IF ok
         THEN /\ snapJournal' = Unreserved(snapJournal, o.sid)
              /\ SnapFinish(h, o, "OK")
         ELSE /\ snapJournal' = snapJournal
              /\ SnapFinish(h, [o EXCEPT !.err = "Other"], "Internal")
  /\ UNCHANGED snaps
  /\ OffSnapUnchanged

\* The response has been sent: the handler is free for the next request.
SnapReturn(h) ==
  /\ sop[h].pc = "done"
  /\ sop' = [sop EXCEPT ![h] = IdleSop]
  /\ UNCHANGED <<SnapshotLocks, snapJournal, snaps>>
  /\ OffSnapUnchanged

\* -------------------------------------------------------- clone operations
\* One clone call at a time, step by step: the clone-from-snapshot branch of
\* createBackingVolume (part_002 lines 69-114), createCloneFromSubvolume and
\* checkCloneFromSubvolumeExists (clone.go).  The record holds the backing
\* state of the clone ID (clone, resized, ts: the temporary snapshot, which
\* carries the clone's ID), the locals of the call, and its history: the
\* primitives called, the first step that failed, whether a rollback
\* primitive failed on its own.
CloneFunctions == {"cloneFromSnapshot", "createCloneFromSubvolume",
                   "checkCloneFromSubvolumeExists"}

NoCloneOp == [fn |-> "none", pc |-> "idle", src |-> "present", lk |-> "nil",
              clone |-> "none", resized |-> FALSE, ts |-> "none",
              protectErr |-> "nil", cloneErr |-> "nil", err |-> "nil",
              state |-> "", ret |-> "none", failed |-> "none",
              rbFault |-> FALSE, calls |-> <<>>, prior |-> FALSE]

\* The error a primitive returns when it fails.
ErrOf(p) == p \o " failed"

CloneFrame ==
  /\ VolumeUnchanged /\ ResolverCodecUnchanged
  /\ UNCHANGED <<SnapshotLocks, snapJournal, snaps, sop>>

Called(o, p) == [o EXCEPT !.calls = Append(o.calls, p)]

\* The first failure of a call is remembered.
Failing(o, p) == [o EXCEPT !.failed = IF o.failed = "none" THEN p ELSE o.failed]

CloneAt(p) == cloneOp.pc = p

CloneStep(o) == cloneOp' = o /\ CloneFrame

\* A request arrives.  A first pass works on a fresh clone ID; the resumed
\* check works on the clone ID of the call before it.
CloneCall(fn, src) ==
  /\ cloneOp.pc \in {"idle", "returned"}
  /\ IF fn = "checkCloneFromSubvolumeExists"
       THEN /\ cloneOp.fn \in {"createCloneFromSubvolume", "checkCloneFromSubvolumeExists"}
            /\ src = "present"
            /\ CloneStep([NoCloneOp EXCEPT !.fn = fn, !.pc = "cc_root",
                                           !.clone = cloneOp.clone,
                                           !.resized = cloneOp.resized,
                                           !.ts = cloneOp.ts,
                                           !.prior = (cloneOp.ret = "nil")])
     ELSE IF fn = "createCloneFromSubvolume"
       THEN /\ src = "present"
            /\ CloneStep([NoCloneOp EXCEPT !.fn = fn, !.pc = "fv_lookup"])
     ELSE CloneStep([NoCloneOp EXCEPT !.fn = fn, !.pc = "fs_lookup", !.src = src])

\* The asynchronous clone completes on the cluster.
CloneProgress ==
  /\ cloneOp.clone = "inprogress"
  /\ CloneStep([cloneOp EXCEPT !.clone = "complete"])

\* Backing primitives on the clone ID: the record after the call and the
\* error returned.  A protected snapshot cannot be deleted; a clone that is
\* not there can be neither resized nor queried.
deleteSnapshotOf(o, ok) ==
  IF ok /\ o.ts = "created"
    THEN [o |-> [Called(o, "deleteSnapshot") EXCEPT !.ts = "none"], e |-> "nil"]
    ELSE [o |-> Called(o, "deleteSnapshot"), e |-> ErrOf("deleteSnapshot")]

unprotectSnapshotOf(o, ok) ==
  IF ok /\ o.ts = "protected"
    THEN [o |-> [Called(o, "unprotectSnapshot") EXCEPT !.ts = "created"], e |-> "nil"]
    ELSE [o |-> Called(o, "unprotectSnapshot"), e |-> ErrOf("unprotectSnapshot")]

purgeVolumeOf(o, ok) ==
  IF ok /\ o.clone # "none"
    THEN [o |-> [Called(o, "purgeVolume") EXCEPT !.clone = "none", !.resized = FALSE],
          e |-> "nil"]
    ELSE [o |-> Called(o, "purgeVolume"), e |-> ErrOf("purgeVolume")]

resizeVolumeOf(o, ok) ==
  IF ok /\ o.clone # "none"
    THEN [o |-> [Called(o, "resizeVolume") EXCEPT !.resized = TRUE], e |-> "nil"]
    ELSE [o |-> Called(o, "resizeVolume"), e |-> ErrOf("resizeVolume")]

\* getcloneInfo: on an error the CloneStatus returned is the zero value.
getcloneInfoOf(o, ok) ==
  IF ok /\ o.clone # "none"
    THEN [o |-> [Called(o, "getcloneInfo") EXCEPT !.state = o.clone], e |-> "nil"]
    ELSE [o |-> [Called(o, "getcloneInfo") EXCEPT !.state = ""], e |-> ErrOf("getcloneInfo")]

cloneSnapshotOf(o, ok) ==
  IF ok
    THEN [o |-> [Called(o, "cloneSnapshot") EXCEPT !.clone = "inprogress"], e |-> "nil"]
    ELSE [o |-> Called(o, "cloneSnapshot"), e |-> ErrOf("cloneSnapshot")]

\* The error of a rollback primitive is logged only.  That the primitive
\* failed on its own (ok is false), whatever the state it was called in,
\* is remembered.
Logged(r, ok) == [r.o EXCEPT !.rbFault = r.o.rbFault \/ ~ok]

\* ---- clone from a snapshot (part_002 lines 69-114)
\* Lines 72-78 and 79-85: ErrSnapNotFound is NotFound, any other error Internal.
SourceSnapCode(e) == IF e = "SnapNotFound" THEN "NotFound" ELSE "Internal"

\* Lines 91-97: the clone is purged on the return when err is set.
FSPurgeNever(err) == FALSE

FSPurgeDeferred(err) == err # "nil"

FSReturn(o, r) ==
  [o EXCEPT !.ret = r, !.pc = IF FSPurgeDeferred(o.err) THEN "fs_purge" ELSE "returned"]

\* Lines 72-78: newSnapshotOptionsFromID.
CloneFromSnapshotLookup ==
  /\ CloneAt("fs_lookup")
  /\ \E e \in (IF cloneOp.src = "present" THEN {"nil", "Other"}
                                          ELSE {"SnapNotFound", "Other"}) :
       LET o == [Called(cloneOp, "newSnapshotOptionsFromID") EXCEPT !.lk = e] IN
       IF e = "nil"
         THEN CloneStep([o EXCEPT !.pc = "fs_check"])
         ELSE CloneStep([Failing(o, "newSnapshotOptionsFromID") EXCEPT
                           !.ret = SourceSnapCode(e), !.pc = "returned"])

\* Lines 79-85: checkSnapExists.
CloneFromSnapshotCheck ==
  /\ CloneAt("fs_check")
  /\ \E e \in {"nil", "SnapNotFound", "Other"} :
       LET o == [Called(cloneOp, "checkSnapExists") EXCEPT !.lk = e] IN
       IF e = "nil"
         THEN CloneStep([o EXCEPT !.pc = "fs_clone"])
         ELSE CloneStep([Failing(o, "checkSnapExists") EXCEPT
                           !.ret = SourceSnapCode(e), !.pc = "returned",
                           !.src = IF e = "SnapNotFound" THEN "missing" ELSE o.src])

\* Lines 86-90: cloneSnapshot; its error is returned as it is, before the
\* purge is deferred.
CloneFromSnapshotClone ==
  /\ CloneAt("fs_clone")
  /\ \E ok \in BOOLEAN :
       LET r == cloneSnapshotOf(cloneOp, ok) IN
       IF r.e = "nil"
         THEN CloneStep([r.o EXCEPT !.pc = "fs_resize"])
         ELSE CloneStep([Failing(r.o, "cloneSnapshot") EXCEPT
                           !.ret = r.e, !.pc = "returned"])

\* Lines 98-104: resizeVolume; its error is Internal.
CloneFromSnapshotResize ==
  /\ CloneAt("fs_resize")
  /\ \E ok \in BOOLEAN :
       LET r == resizeVolumeOf(cloneOp, ok) IN
       IF r.e = "nil"
         THEN CloneStep([r.o EXCEPT !.pc = "fs_info"])
         ELSE CloneStep(FSReturn([Failing(r.o, "resizeVolume") EXCEPT !.err = r.e],
                                 "Internal"))

\* Lines 105-114: getcloneInfo; its error is Internal, a state other than
\* complete is ErrCloneInProgress, returned without err being set.
CloneFromSnapshotInfo ==
  /\ CloneAt("fs_info")
  /\ \E ok \in BOOLEAN :
       LET r == getcloneInfoOf(cloneOp, ok) IN
       IF r.e # "nil"
         THEN CloneStep(FSReturn([Failing(r.o, "getcloneInfo") EXCEPT !.err = r.e],
                                 "Internal"))
       ELSE IF r.o.state # "complete"
         THEN CloneStep(FSReturn(r.o, "CloneInProgress"))
       ELSE CloneStep(FSReturn(r.o, "nil"))

\* Lines 93-95: the deferred purgeVolume.
CloneFromSnapshotPurge ==
  /\ CloneAt("fs_purge")
  /\ \E ok \in BOOLEAN :
       CloneStep([Logged(purgeVolumeOf(cloneOp, ok), ok) EXCEPT !.pc = "returned"])

\* ---- createCloneFromSubvolume (clone.go lines 28-101)
\* Lines 39-58: the deferred function: deleteSnapshot when protectErr is
\* set; unprotectSnapshot, deleteSnapshot and purgeVolume when cloneErr is.
FVDeferred(o) ==
  IF o.protectErr # "nil" THEN "fv_d_delete"
  ELSE IF o.cloneErr # "nil" THEN "fv_rb_unprotect"
  ELSE "returned"

FVReturn(o, r) == [o EXCEPT !.ret = r, !.pc = FVDeferred(o)]

\* part_002 lines 115-127: newVolumeOptionsFromVolID of the source volume
\* and the classification of its error, before createCloneFromSubvolume is
\* called.
CreateCloneSourceLookup ==
  /\ CloneAt("fv_lookup")
  /\ \E e \in SourceLookupErrors \cup {"nil"} :
       LET o == [Called(cloneOp, "newVolumeOptionsFromVolID") EXCEPT !.lk = e] IN
       IF e = "nil"
         THEN CloneStep([o EXCEPT !.pc = "fv_create"])
         ELSE CloneStep([Failing(o, "newVolumeOptionsFromVolID") EXCEPT
                           !.ret = SourceLookupCode(e), !.pc = "returned"])

\* Lines 30-34: createSnapshot; on an error nothing is deferred yet.
CreateCloneSnapshot ==
  /\ CloneAt("fv_create")
  /\ \E ok \in BOOLEAN :
       LET o == Called(cloneOp, "createSnapshot") IN
       IF ok
         THEN CloneStep([o EXCEPT !.ts = "created", !.pc = "fv_protect"])
         ELSE CloneStep([Failing(o, "createSnapshot") EXCEPT
                           !.err = ErrOf("createSnapshot"),
                           !.ret = ErrOf("createSnapshot"), !.pc = "returned"])

\* Lines 59-63: protectSnapshot.
CreateCloneProtect ==
  /\ CloneAt("fv_protect")
  /\ \E ok \in BOOLEAN :
       LET o == Called(cloneOp, "protectSnapshot") IN
       IF ok
         THEN CloneStep([o EXCEPT !.ts = "protected", !.pc = "fv_clone"])
         ELSE CloneStep(FVReturn([Failing(o, "protectSnapshot") EXCEPT
                                    !.protectErr = ErrOf("protectSnapshot")],
                                 ErrOf("protectSnapshot")))

\* Lines 69-73: cloneSnapshot; its error is assigned to protectErr.
CreateCloneClone ==
  /\ CloneAt("fv_clone")
  /\ \E ok \in BOOLEAN :
       LET r == cloneSnapshotOf(cloneOp, ok) IN
       IF r.e = "nil"
         THEN CloneStep([r.o EXCEPT !.pc = "fv_info"])
         ELSE CloneStep(FVReturn([Failing(r.o, "cloneSnapshot") EXCEPT !.protectErr = r.e],
                                 r.e))

\* Lines 74-81: getcloneInfo assigns cloneErr, the test that follows reads
\* err; then a state other than complete is ErrCloneInProgress.
FVInfoFailed(o) == o.err # "nil"

CreateCloneInfo ==
  /\ CloneAt("fv_info")
  /\ \E ok \in BOOLEAN :
       LET r == getcloneInfoOf(cloneOp, ok)
           o == IF r.e = "nil" THEN [r.o EXCEPT !.cloneErr = r.e]
                               ELSE [Failing(r.o, "getcloneInfo") EXCEPT !.cloneErr = r.e] IN
       IF FVInfoFailed(o) THEN CloneStep(FVReturn(o, o.err))
       ELSE IF o.state # "complete" THEN CloneStep(FVReturn(o, "CloneInProgress"))
       ELSE CloneStep([o EXCEPT !.pc = "fv_resize"])

\* Lines 82-88: resizeVolume.
CreateCloneResize ==
  /\ CloneAt("fv_resize")
  /\ \E ok \in BOOLEAN :
       LET r == resizeVolumeOf(cloneOp, ok) IN
       IF r.e = "nil"
         THEN CloneStep([r.o EXCEPT !.pc = "fv_unprotect"])
         ELSE CloneStep(FVReturn([Failing(r.o, "resizeVolume") EXCEPT !.cloneErr = r.e], r.e))

\* Lines 90-94: unprotectSnapshot.
CreateCloneUnprotect ==
  /\ CloneAt("fv_unprotect")
  /\ \E ok \in BOOLEAN :
       LET r == unprotectSnapshotOf(cloneOp, ok) IN
       IF r.e = "nil"
         THEN CloneStep([r.o EXCEPT !.pc = "fv_delete"])
         ELSE CloneStep(FVReturn([Failing(r.o, "unprotectSnapshot") EXCEPT !.cloneErr = r.e],
                                 r.e))

\* Lines 95-100: deleteSnapshot, then success.
CreateCloneDelete ==
  /\ CloneAt("fv_delete")
  /\ \E ok \in BOOLEAN :
       LET r == deleteSnapshotOf(cloneOp, ok) IN
       IF r.e = "nil"
         THEN CloneStep(FVReturn(r.o, "nil"))
         ELSE CloneStep(FVReturn([Failing(r.o, "deleteSnapshot") EXCEPT !.cloneErr = r.e],
                                 r.e))

\* Lines 40-45: deferred deleteSnapshot for protectErr.
CreateCloneDeferredDelete ==
  /\ CloneAt("fv_d_delete")
  /\ \E ok \in BOOLEAN :
       LET o == Logged(deleteSnapshotOf(cloneOp, ok), ok) IN
       CloneStep([o EXCEPT !.pc = IF o.cloneErr # "nil" THEN "fv_rb_unprotect"
                                                       ELSE "returned"])

\* Lines 47-50: deferred unprotectSnapshot for cloneErr.
CreateCloneRollbackUnprotect ==
  /\ CloneAt("fv_rb_unprotect")
  /\ \E ok \in BOOLEAN :
       CloneStep([Logged(unprotectSnapshotOf(cloneOp, ok), ok) EXCEPT !.pc = "fv_rb_delete"])

\* Lines 51-53: deferred deleteSnapshot for cloneErr.
CreateCloneRollbackDelete ==
  /\ CloneAt("fv_rb_delete")
  /\ \E ok \in BOOLEAN :
       CloneStep([Logged(deleteSnapshotOf(cloneOp, ok), ok) EXCEPT !.pc = "fv_rb_purge"])

\* Lines 54-56: deferred purgeVolume for cloneErr.
CreateCloneRollbackPurge ==
  /\ CloneAt("fv_rb_purge")
  /\ \E ok \in BOOLEAN :
       CloneStep([Logged(purgeVolumeOf(cloneOp, ok), ok) EXCEPT !.pc = "returned"])

\* ---- checkCloneFromSubvolumeExists (clone.go lines 103-147)
\* Lines 106-112: getVolumeRootPathCeph; ErrVolumeNotFound is passed over.
CheckCloneRootPath ==
  /\ CloneAt("cc_root")
  /\ \E e \in (IF cloneOp.clone = "none" THEN {"VolumeNotFound", "Other"}
                                         ELSE {"nil", "Other"}) :
       LET o == Called(cloneOp, "getVolumeRootPathCeph") IN
       IF e \in {"nil", "VolumeNotFound"}
         THEN CloneStep([o EXCEPT !.pc = "cc_info"])
         ELSE CloneStep([Failing(o, "getVolumeRootPathCeph") EXCEPT
                           !.ret = ErrOf("getVolumeRootPathCeph"), !.pc = "returned"])

\* Lines 113-120: getcloneInfo and the state of the clone.
CheckCloneInfo ==
  /\ CloneAt("cc_info")
  /\ \E ok \in BOOLEAN :
       LET r == getcloneInfoOf(cloneOp, ok) IN
       IF r.e # "nil"
         THEN CloneStep([Failing(r.o, "getcloneInfo") EXCEPT !.ret = r.e, !.pc = "returned"])
       ELSE IF r.o.state # "complete"
         THEN CloneStep([r.o EXCEPT !.ret = "CloneInProgress", !.pc = "returned"])
       ELSE CloneStep([r.o EXCEPT !.pc = "cc_resize"])

\* Lines 121-127: resizeVolume.
CheckCloneResize ==
  /\ CloneAt("cc_resize")
  /\ \E ok \in BOOLEAN :
       LET r == resizeVolumeOf(cloneOp, ok) IN
       IF r.e = "nil"
         THEN CloneStep([r.o EXCEPT !.pc = "cc_snapinfo"])
         ELSE CloneStep([Failing(r.o, "resizeVolume") EXCEPT !.ret = r.e, !.pc = "returned"])

\* Lines 128-135: getSnapshotInfo; a temporary snapshot that is gone means
\* the clone is finished.
CCAnySnapError(e) == TRUE

CCSnapGone(e) == e = "SnapNotFound"

CheckCloneSnapshotInfo ==
  /\ CloneAt("cc_snapinfo")
  /\ \E e \in (IF cloneOp.ts = "none" THEN {"SnapNotFound", "Other"}
                                      ELSE {"nil", "Other"}) :
       LET o == Called(cloneOp, "getSnapshotInfo") IN
       IF e = "nil" THEN CloneStep([o EXCEPT !.pc = "cc_unprotect"])
       ELSE IF CCSnapGone(e) THEN CloneStep([o EXCEPT !.ret = "nil", !.pc = "returned"])
       ELSE CloneStep([Failing(o, "getSnapshotInfo") EXCEPT
                         !.ret = ErrOf("getSnapshotInfo"), !.pc = "returned"])

\* Lines 136-140: unprotectSnapshot.
CheckCloneUnprotect ==
  /\ CloneAt("cc_unprotect")
  /\ \E ok \in BOOLEAN :
       LET r == unprotectSnapshotOf(cloneOp, ok) IN
       IF r.e = "nil"
         THEN CloneStep([r.o EXCEPT !.pc = "cc_delete"])
         ELSE CloneStep([Failing(r.o, "unprotectSnapshot") EXCEPT
                           !.ret = r.e, !.pc = "returned"])

\* Lines 141-146: deleteSnapshot, then success.
CheckCloneDelete ==
  /\ CloneAt("cc_delete")
  /\ \E ok \in BOOLEAN :
       LET r == deleteSnapshotOf(cloneOp, ok) IN
       IF r.e = "nil"
         THEN CloneStep([r.o EXCEPT !.ret = "nil", !.pc = "returned"])
         ELSE CloneStep([Failing(r.o, "deleteSnapshot") EXCEPT !.ret = r.e, !.pc = "returned"])

\* ------------------------------------------------------------ specification
\* No snapshot is reserved or taken, no snapshot handler and no clone call
\* is running.
SnapCloneInit ==
  /\ SnapshotLocks = {}
  /\ snapJournal = EmptySnapJournal
  /\ snaps = [s \in SnapIDs |-> NoSnap]
  /\ sop = [h \in SnapHandlers |-> IdleSop]
  /\ cloneOp = NoCloneOp

SideInit ==
  /\ clusterMapping = <<>>
  /\ journalAt = {}
  /\ rq = [r \in Requests |-> IdleRq]
  /\ csiID = NoCsiID
  /\ SnapCloneInit

ControllerInit ==
  /\ VolumeLocks = {}
  /\ fwd = [n \in Names |-> NoUUID]
  /\ rev = [u \in UUIDs |-> NoName]
  /\ subvol = [u \in UUIDs |-> "none"]
  /\ tmpsnap = [u \in UUIDs |-> "none"]
  /\ poolPresent = TRUE
  /\ nextUUID = 1
  /\ pc = [h \in Handlers |-> "idle"]
  /\ loc = [h \in Handlers |-> IdleLoc]
  /\ res = [h \in Handlers |-> NoRes]
  /\ committed = [n \in Names |-> NoCommit]
  /\ caller = [c \in Callers |-> IdleCaller]

Init == ControllerInit /\ SideInit

CallCreateVolume == \E h \in Handlers, n \in Names : CreateVolumeStart(h, n)
StepCheckVolExists == \E h \in Handlers : CreateVolumeCheck(h)
StepReserveVol == \E h \in Handlers : reserveVol(h)
StepReserveVolForward == \E h \in Handlers : reserveVolForward(h)
StepCreateBacking == \E h \in Handlers : CreateVolumeBacking(h)
StepUndoReservation == \E h \in Handlers : undoVolReservation(h)
StepUndoReservationForward == \E h \in Handlers : undoVolReservationForward(h)
CallDeleteVolume == \E h \in Handlers, u \in VolIDs : DeleteVolumeStart(h, u)
StepDeleteLookup == \E h \in Handlers : DeleteVolumeLookup(h)
StepDeleteLockName == \E h \in Handlers : DeleteVolumeLockName(h)
StepDeletePurge == \E h \in Handlers : DeleteVolumePurge(h)
CallControllerExpandVolume == \E h \in Handlers, u \in VolIDs : ControllerExpandVolumeStart(h, u)
StepExpandLookup == \E h \in Handlers : ControllerExpandVolumeLookup(h)
StepExpandResize == \E h \in Handlers : ControllerExpandVolumeResize(h)
CallValidateVolumeCapabilities ==
  \E h \in Handlers, u \in VolIDs, caps \in CapLists : ValidateVolumeCapabilities(h, u, caps)
StepReturn == \E h \in Handlers : Return(h)
StepCloneCompletes == \E u \in UUIDs : CloneCompletes(u)

Next ==
  \/ CallCreateVolume \/ StepCheckVolExists \/ StepReserveVol \/ StepReserveVolForward
  \/ StepCreateBacking \/ StepUndoReservation \/ StepUndoReservationForward
  \/ CallDeleteVolume \/ StepDeleteLookup \/ StepDeleteLockName \/ StepDeletePurge
  \/ StepReturn \/ Crash \/ StepCloneCompletes \/ RemovePool

Spec == Init /\ [][Next]_vars

LockSpec == Init /\ [][LockNext]_vars

\* The thin operations, ControllerExpandVolume and ValidateVolumeCapabilities,
\* next to DeleteVolume, from the state a successful CreateVolume("pvc-1")
\* has left: volume 1 reserved and created.
ThinInit ==
  /\ VolumeLocks = {}
  /\ fwd = [n \in Names |-> IF n = NameOf[1] THEN 1 ELSE NoUUID]
  /\ rev = [u \in UUIDs |-> IF u = 1 THEN NameOf[1] ELSE NoName]
  /\ subvol = [u \in UUIDs |-> IF u = 1 THEN "complete" ELSE "none"]
  /\ tmpsnap = [u \in UUIDs |-> "none"]
  /\ poolPresent = TRUE
  /\ nextUUID = 2
  /\ pc = [h \in Handlers |-> "idle"]
  /\ loc = [h \in Handlers |-> IdleLoc]
  /\ res = [h \in Handlers |-> NoRes]
  /\ committed = [n \in Names |-> IF n = NameOf[1] THEN [id |-> 1, st |-> "created"]
                                   ELSE NoCommit]
  /\ caller = [c \in Callers |-> IdleCaller]
  /\ SideInit

ThinNext ==
  \/ CallDeleteVolume \/ StepDeleteLookup \/ StepDeleteLockName \/ StepDeletePurge
  \/ StepUndoReservation \/ StepUndoReservationForward
  \/ CallControllerExpandVolume \/ StepExpandLookup \/ StepExpandResize
  \/ CallValidateVolumeCapabilities
  \/ StepReturn \/ Crash \/ RemovePool

ThinSpec == ThinInit /\ [][ThinNext]_vars

\* The snapshot operations next to DeleteVolume of their source volume, from
\* the state a successful CreateVolume("pvc-1") has left.  One handler
\* serves the DeleteVolume requests here: DeleteVolume against DeleteVolume
\* is the subject of the specifications above.
SourceHandler == CHOOSE h \in Handlers : TRUE
CallDeleteSource == \E v \in SnapSources : DeleteVolumeStart(SourceHandler, v)
CallCreateSnapshot ==
  \E h \in SnapHandlers, n \in SnapNames, v \in SnapSources : CreateSnapshotStart(h, n, v)
StepSnapLookup == \E h \in SnapHandlers : CreateSnapshotLookup(h)
StepSnapCheck == \E h \in SnapHandlers : CreateSnapshotCheck(h)
StepSnapReserve == \E h \in SnapHandlers : CreateSnapshotReserve(h)
StepSnapDo == \E h \in SnapHandlers : CreateSnapshotDo(h)
StepSnapUndo == \E h \in SnapHandlers : CreateSnapshotUndo(h)
CallDeleteSnapshot == \E h \in SnapHandlers, s \in SnapIDs : DeleteSnapshotStart(h, s)
StepDeleteSnapLookup == \E h \in SnapHandlers : DeleteSnapshotLookup(h)
StepDeleteSnapGC == \E h \in SnapHandlers : DeleteSnapshotGC(h)
StepDeleteSnapLockName == \E h \in SnapHandlers : DeleteSnapshotLockName(h)
StepDeleteSnapUnprotect == \E h \in SnapHandlers : DeleteSnapshotUnprotect(h)
StepDeleteSnapDelete == \E h \in SnapHandlers : DeleteSnapshotDelete(h)
StepDeleteSnapUndo == \E h \in SnapHandlers : DeleteSnapshotUndo(h)
StepSnapReturn == \E h \in SnapHandlers : SnapReturn(h)

SnapNext ==
  \/ CallCreateSnapshot \/ StepSnapLookup \/ StepSnapCheck \/ StepSnapReserve
  \/ StepSnapDo \/ StepSnapUndo
  \/ CallDeleteSnapshot \/ StepDeleteSnapLookup \/ StepDeleteSnapGC
  \/ StepDeleteSnapLockName \/ StepDeleteSnapUnprotect \/ StepDeleteSnapDelete
  \/ StepDeleteSnapUndo \/ StepSnapReturn
  \/ CallDeleteSource \/ StepDeleteLookup \/ StepDeleteLockName \/ StepDeletePurge
  \/ StepUndoReservation \/ StepUndoReservationForward \/ StepReturn \/ RemovePool

SnapSpec == ThinInit /\ [][SnapNext]_vars

\* The clone calls of createBackingVolume, one at a time.
CallClone ==
  \E fn \in CloneFunctions, src \in {"present", "missing"} : CloneCall(fn, src)

CloneNext ==
  \/ CallClone \/ CloneProgress
  \/ CloneFromSnapshotLookup \/ CloneFromSnapshotCheck \/ CloneFromSnapshotClone
  \/ CloneFromSnapshotResize \/ CloneFromSnapshotInfo \/ CloneFromSnapshotPurge
  \/ CreateCloneSourceLookup
  \/ CreateCloneSnapshot \/ CreateCloneProtect \/ CreateCloneClone \/ CreateCloneInfo
  \/ CreateCloneResize \/ CreateCloneUnprotect \/ CreateCloneDelete
  \/ CreateCloneDeferredDelete \/ CreateCloneRollbackUnprotect
  \/ CreateCloneRollbackDelete \/ CreateCloneRollbackPurge
  \/ CheckCloneRootPath \/ CheckCloneInfo \/ CheckCloneResize
  \/ CheckCloneSnapshotInfo \/ CheckCloneUnprotect \/ CheckCloneDelete

CloneSpec == Init /\ [][CloneNext]_vars

\* The resolver: lookups of foreign handles under every mapping
\* configuration and every placement of the volume's record.
ResolverInit ==
  /\ ControllerInit
  /\ clusterMapping \in MappingConfigs
  /\ journalAt \in RecordPlaces
  /\ rq = [r \in Requests |-> IdleRq]
  /\ csiID = NoCsiID
  /\ SnapCloneInit

CallResolveStart ==
  \E r \in Requests, kind \in StorageKinds, c \in Clusters, p \in PoolIDs :
    ResolveStart(r, kind, c, p)
StepDirectLookup == \E r \in Requests : DirectLookup(r)
StepConsultResolver == \E r \in Requests : ConsultResolver(r)
StepRetryLookup == \E r \in Requests : RetryLookup(r)
StepResolveReturn == \E r \in Requests : ResolveReturn(r)

ResolverNext ==
  \/ CallResolveStart \/ StepDirectLookup \/ StepConsultResolver
  \/ StepRetryLookup \/ StepResolveReturn \/ ReloadMapping

ResolverSpec == ResolverInit /\ [][ResolverNext]_vars

\* The codec: every identifier of the bounded sets is encoded and the handle
\* decoded again.
CodecInit ==
  /\ ControllerInit
  /\ clusterMapping = <<>>
  /\ journalAt = {}
  /\ rq = [r \in Requests |-> IdleRq]
  /\ csiID \in {[NoCsiID EXCEPT !.st = "new", !.id = i] : i \in Identifiers}
  /\ SnapCloneInit

CodecNext == Encode \/ Decode

CodecSpec == CodecInit /\ [][CodecNext]_vars

\* ==================================================================== claims

\* C1: of any number of TryAcquire(k) calls racing on a free key exactly one
\* returns true (a call returns true iff the key was free when it ran, and a
\* key never has two holders); once the holder has released k the key is
\* free again, so the next TryAcquire(k) returns true.
C1_TryAcquireExclusive ==
  [][ /\ \A c \in Callers :
           (caller'[c] # caller[c] /\ caller'[c].st \in {"held", "refused"})
             => (caller'[c].st = "held" <=> caller'[c].key \notin VolumeLocks)
      /\ \A c \in Callers :
           (caller[c].st = "held" /\ caller'[c].st = "released")
             => caller[c].key \notin VolumeLocks'
      /\ \A k \in LockKeys :
           /\ Cardinality({c \in Callers : caller'[c].st = "held" /\ caller'[c].key = k}) <= 1
           /\ k \in VolumeLocks' <=> \E c \in Callers : caller'[c].st = "held" /\ caller'[c].key = k
    ]_vars

\* One caller has released k, a second one then acquired it, a third was refused.
C1_Witness ==
  \E k \in LockKeys : \E c1, c2, c3 \in Callers :
    /\ caller[c1] = [key |-> k, st |-> "released"]
    /\ caller[c2] = [key |-> k, st |-> "held"]
    /\ caller[c3] = [key |-> k, st |-> "refused"]

\* C2: every forward journal entry (request name -> UUID) has the reverse
\* entry of that UUID, in every state, also between the two deletes of
\* Unreserve and after a crash there.
C2_ForwardHasReverse ==
  \A n \in Names : fwd[n] # NoUUID => rev[fwd[n]] = n

\* C3: at most one CreateVolume per request name is past the name lock, and
\* a CreateVolume that arrives while another one of the same name is past
\* the lock returns Aborted at once and changes nothing.
C3_CreateVolumeExclusive ==
  [][ /\ \A n \in Names :
           Cardinality({h \in Handlers : pc'[h] \notin {"idle", "done"}
                                           /\ loc'[h].op = "CreateVolume"
                                           /\ loc'[h].name = n}) <= 1
      /\ \A h, g \in Handlers :
           (/\ pc[h] = "idle" /\ pc'[h] # "idle"
            /\ InFlight(g) /\ loc[g].op = "CreateVolume"
            /\ loc[g].name \in {loc'[h].name, res'[h].name}
            /\ "CreateVolume" \in {loc'[h].op, res'[h].op})
             => /\ pc'[h] = "done" /\ res'[h].code = "Aborted"
                /\ UNCHANGED <<VolumeLocks, fwd, rev, subvol, tmpsnap, nextUUID>>
    ]_vars

\* One CreateVolume is creating the backing volume while a second one for the
\* same name has been turned away with Aborted.
C3_Witness ==
  \E h1, h2 \in Handlers :
    /\ pc[h1] = "cv_create"
    /\ pc[h2] = "done" /\ res[h2].op = "CreateVolume" /\ res[h2].name = loc[h1].name
    /\ res[h2].code = "Aborted" /\ res[h2].err = "Busy"

\* C4: once CreateVolume(N) has returned volume v and no DeleteVolume has
\* run since, a replay of CreateVolume(N) never reaches the reservation or
\* the creation of a backing object, and when it runs alone and its journal
\* lookup succeeds it returns OK with the same v.
C4_CreateVolumeReplay ==
  \A h \in Handlers :
    /\ (InFlight(h) /\ loc[h].op = "CreateVolume" /\ committed[loc[h].name].st = "created")
         => pc[h] = "cv_check"
    /\ (pc[h] = "done" /\ res[h].op = "CreateVolume" /\ res[h].prior.st = "created")
         => /\ res[h].code = "OK" => res[h].uuid = res[h].prior.id
            /\ ~res[h].undoRan
            /\ (res[h].solo /\ res[h].err \notin {"Other", "BadOptions"}) => res[h].code = "OK"

\* A replay of a CreateVolume that had returned OK has returned OK with the
\* same volume.
C4_Witness ==
  \E h \in Handlers :
    /\ pc[h] = "done" /\ res[h].op = "CreateVolume" /\ res[h].code = "OK"
    /\ res[h].prior = [id |-> res[h].uuid, st |-> "created"]

\* C5: when no operation is in flight the lock registry holds no key: every
\* operation has released each key it acquired by the time it returns.
C5_LocksReleased ==
  (\A h \in Handlers : ~InFlight(h)) => VolumeLocks = {}

\* C6: when CreateVolume has a reservation and createBackingVolume fails with
\* an error other than CloneInProgress, undoVolReservation has run when the
\* operation returns, and when it succeeded neither the forward entry of the
\* name nor the reverse entry of the reserved UUID is left.
C6_CreateFailureUnreserves ==
  \A h \in Handlers :
    (pc[h] = "done" /\ res[h].op = "CreateVolume"
       /\ res[h].err \in {"Internal", "NotFound", "InvalidArgument", "Error"})
      => /\ res[h].code # "OK"
         /\ res[h].undoRan
         /\ res[h].undoOK => (res[h].fwdAt = NoUUID /\ res[h].revAt = NoName)

\* A CreateVolume has returned a terminal error after a successful Unreserve.
C6_Witness ==
  \E h \in Handlers :
    /\ pc[h] = "done" /\ res[h].op = "CreateVolume" /\ res[h].err = "Internal"
    /\ res[h].uuid # NoUUID /\ res[h].undoOK /\ res[h].fwdAt = NoUUID

\* C7: when the backing object reports CloneInProgress, CreateVolume returns
\* Aborted without running Unreserve and the forward entry of the name still
\* holds the same UUID; until a DeleteVolume or a terminal failure, every
\* later CreateVolume of that name works on that same UUID.
C7_CloneInProgressKeepsReservation ==
  \A h \in Handlers :
    /\ (pc[h] = "done" /\ res[h].op = "CreateVolume" /\ res[h].err = "CloneInProgress")
         => /\ res[h].code = "Aborted"
            /\ ~res[h].undoRan
            /\ res[h].fwdAt = res[h].uuid
    /\ (loc[h].op = "CreateVolume" /\ loc[h].uuid # NoUUID
          /\ committed[loc[h].name].st = "pending")
         => loc[h].uuid = committed[loc[h].name].id
    /\ (pc[h] = "done" /\ res[h].op = "CreateVolume" /\ res[h].uuid # NoUUID
          /\ res[h].prior.st = "pending")
         => res[h].uuid = res[h].prior.id

\* A CreateVolume returned CloneInProgress from createBackingVolume, and a
\* retry of it has returned OK with the UUID reserved then.
C7_Witness ==
  \E h1, h2 \in Handlers :
    /\ h1 # h2 /\ pc[h1] = "done" /\ pc[h2] = "done"
    /\ res[h1].op = "CreateVolume" /\ res[h1].err = "CloneInProgress"
    /\ res[h1].prior.st = "none" /\ res[h1].fwdAt = res[h1].uuid
    /\ res[h2].op = "CreateVolume" /\ res[h2].code = "OK"
    /\ res[h2].prior = [id |-> res[h1].uuid, st |-> "pending"]

\* C8: a DeleteVolume whose lookup fails with PoolNotFound or KeyNotFound
\* returns OK straight from the lookup: no purge, no Unreserve, and the
\* journal and the backing store are left as they were.
C8_DeleteAlreadyDeleted ==
  [][ \A h \in Handlers :
        (pc[h] = "dv_lookup" /\ pc'[h] = "done"
           /\ res'[h].lk \in {"PoolNotFound", "KeyNotFound"})
          => /\ res'[h].code = "OK"
             /\ ~res'[h].undoRan
             /\ UNCHANGED <<fwd, rev, subvol, tmpsnap, nextUUID>>
    ]_vars

\* One DeleteVolume has returned OK on KeyNotFound, another on PoolNotFound.
C8_Witness ==
  \E h1, h2 \in Handlers :
    /\ pc[h1] = "done" /\ res[h1].op = "DeleteVolume"
    /\ res[h1].lk = "KeyNotFound" /\ res[h1].code = "OK"
    /\ pc[h2] = "done" /\ res[h2].op = "DeleteVolume"
    /\ res[h2].lk = "PoolNotFound" /\ res[h2].code = "OK"

\* C9: a DeleteVolume whose lookup fails with VolumeNotFound returns Aborted
\* when the name lock is contended, else it runs Unreserve; it returns OK
\* exactly when Unreserve succeeded, and then neither the forward nor the
\* reverse entry of the volume is left; otherwise it returns Internal.
C9_DeleteGarbageCollects ==
  \A h \in Handlers :
    (pc[h] = "done" /\ res[h].op = "DeleteVolume" /\ res[h].lk = "VolumeNotFound")
      => \/ res[h].err = "Busy" /\ res[h].code = "Aborted" /\ ~res[h].undoRan
         \/ /\ res[h].err # "Busy" /\ res[h].undoRan
            /\ res[h].code = (IF res[h].undoOK THEN "OK" ELSE "Internal")
            /\ res[h].undoOK => (res[h].fwdAt = NoUUID /\ res[h].revAt = NoName)

\* A DeleteVolume found the reverse entry without its backing volume,
\* unreserved it and returned OK.
C9_Witness ==
  \E h \in Handlers :
    /\ pc[h] = "done" /\ res[h].op = "DeleteVolume" /\ res[h].lk = "VolumeNotFound"
    /\ res[h].code = "OK" /\ res[h].undoOK /\ res[h].revAt = NoName

\* C10: a DeleteVolume that runs with no other operation in flight and whose
\* external calls all succeed returns OK, whatever earlier attempts left
\* behind, and no journal entry of the volume is left.
C10_DeleteRetryConverges ==
  \A h \in Handlers :
    (pc[h] = "done" /\ res[h].op = "DeleteVolume" /\ res[h].solo
       /\ res[h].lk # "InvalidVolID" /\ res[h].err \notin {"Other", "BadSecrets"}
       /\ (res[h].undoRan => res[h].undoOK))
      => res[h].code = "OK" /\ res[h].revAt = NoName

\* C11: while the clone of a CreateVolume that returned CloneInProgress is
\* still in progress, every further CreateVolume of the name returns Aborted
\* with CloneInProgress (unless its journal lookup itself fails) and leaves
\* the journal as it was; and a DeleteVolume of the ID of such a clone that
\* runs alone with all its calls succeeding returns OK and leaves neither
\* the forward nor the reverse entry.
C11_NeverCompletingClone ==
  [][ /\ \A h \in Handlers :
           (/\ pc[h] = "cv_check" /\ pc'[h] \notin {"cv_check", "idle"}
            /\ committed[loc[h].name].st = "pending"
            /\ subvol[committed[loc[h].name].id] = "inprogress")
             => /\ pc'[h] = "done"
                /\ UNCHANGED <<fwd, rev, nextUUID, subvol>>
                /\ fwd[loc[h].name] = committed[loc[h].name].id
                /\ res'[h].err \notin {"Other", "BadOptions"}
                     => (res'[h].code = "Aborted" /\ res'[h].err = "CloneInProgress")
      /\ \A h \in Handlers :
           (/\ pc'[h] = "done" /\ res'[h].op = "DeleteVolume"
            /\ res'[h].prior.st = "pending" /\ res'[h].prior.id = res'[h].uuid
            /\ res'[h].solo /\ res'[h].err \notin {"Other", "BadSecrets"}
            /\ (res'[h].undoRan => res'[h].undoOK))
             => (res'[h].code = "OK" /\ res'[h].fwdAt = NoUUID /\ res'[h].revAt = NoName)
    ]_vars

\* A retry of a CreateVolume whose clone was in progress has returned
\* CloneInProgress again, and then a DeleteVolume of the clone's ID ran
\* Unreserve and returned OK.
C11_Witness ==
  \E h1, h2 \in Handlers :
    /\ pc[h1] = "done" /\ res[h1].op = "CreateVolume" /\ res[h1].err = "CloneInProgress"
    /\ res[h1].prior = [id |-> res[h1].uuid, st |-> "pending"]
    /\ pc[h2] = "done" /\ res[h2].op = "DeleteVolume" /\ res[h2].code = "OK"
    /\ res[h2].prior = [id |-> res[h1].uuid, st |-> "pending"] /\ res[h2].uuid = res[h1].uuid
    /\ res[h2].lk = "nil" /\ res[h2].undoOK /\ res[h2].fwdAt = NoUUID /\ res[h2].revAt = NoName

\* C12: the identifier a Reserve returns is the one the forward entry of the
\* name holds, so two Reserves of a name with no Unreserve between them
\* return the same identifier; and a Reserve that finds the forward entry
\* writes no journal entry and generates no UUID.
C12_ReserveIdempotent ==
  [][ \A h \in Handlers :
        /\ (pc'[h] = "cv_create" /\ poolPresent')
             => fwd'[loc'[h].name] = loc'[h].uuid
        /\ (pc[h] = "cv_reserve" /\ pc'[h] \notin {"cv_reserve", "idle"}
               /\ fwd[loc[h].name] # NoUUID)
             => /\ UNCHANGED <<fwd, rev, nextUUID>>
                /\ pc'[h] \in {"cv_create", "done"}
                /\ pc'[h] = "cv_create" => loc'[h].uuid = fwd[loc[h].name]
    ]_vars

\* A CreateVolume reserved a UUID and failed, its Unreserve failed too and
\* left the forward entry; the next CreateVolume of the name got the same
\* UUID from Reserve and no new UUID was generated.
C12_Witness ==
  \E h1, h2 \in Handlers :
    /\ pc[h1] = "done" /\ res[h1].op = "CreateVolume" /\ res[h1].uuid = 1
    /\ res[h1].undoRan /\ ~res[h1].undoOK /\ res[h1].fwdAt = 1
    /\ pc[h2] = "cv_create" /\ loc[h2].name = res[h1].name /\ loc[h2].uuid = 1
    /\ fwd[loc[h2].name] = 1 /\ nextUUID = 2

\* C13: an Unreserve whose journal entry is already gone changes nothing and
\* fails only when the call itself fails: the delete of a missing key is a
\* success, so an Unreserve that follows an Unreserve of the same identifier
\* completes, and a DeleteVolume that ends with it returns OK.
C13_UnreserveIdempotent ==
  [][ \A h \in Handlers :
        /\ (pc[h] = "undo1" /\ pc'[h] \notin {"undo1", "idle"}
               /\ rev[loc[h].uuid] = NoName)
             => /\ UNCHANGED <<fwd, rev>>
                /\ pc'[h] = "done" => res'[h].undoErr = "Other"
        /\ (pc[h] = "undo2" /\ pc'[h] \notin {"undo2", "idle"}
               /\ fwd[loc[h].name] = NoUUID)
             => /\ UNCHANGED <<fwd, rev>>
                /\ res'[h].undoErr \in {"nil", "Other"}
                /\ res'[h].undoErr = "nil"
                     => /\ res'[h].undoOK
                        /\ res'[h].op = "DeleteVolume" => res'[h].code = "OK"
    ]_vars

\* A first Unreserve of UUID 1 deleted the reverse entry and failed on the
\* forward entry; the Unreserve of the next CreateVolume of the name, again
\* of UUID 1, found the reverse entry gone and completed.
C13_Witness ==
  \E h1, h2 \in Handlers :
    /\ pc[h1] = "done" /\ res[h1].op = "CreateVolume" /\ res[h1].uuid = 1
    /\ res[h1].undoRan /\ res[h1].undoErr = "Other"
    /\ res[h1].revAt = NoName /\ res[h1].fwdAt = 1
    /\ pc[h2] = "done" /\ res[h2].op = "CreateVolume" /\ res[h2].name = res[h1].name
    /\ res[h2].uuid = 1 /\ res[h2].undoOK /\ res[h2].fwdAt = NoUUID /\ nextUUID = 2

\* C14: the lookup of a DeleteVolume reports PoolNotFound when, and only
\* when, the pool is absent; KeyNotFound only when the pool is there and the
\* reverse record is not; VolumeNotFound only when the reverse record is
\* there and the backing volume is not; and with the pool there, the case at
\* hand is reported by its own error unless the read itself failed.
C14_LookupClassification ==
  [][ \A h \in Handlers :
        (pc[h] = "dv_lookup" /\ pc'[h] \notin {"dv_lookup", "idle"}
           /\ loc[h].uuid \in UUIDs)
          => LET u == loc[h].uuid
                 e == IF pc'[h] = "done" THEN res'[h].lk ELSE loc'[h].lk
             IN /\ e = "PoolNotFound" <=> ~poolPresent
                /\ e = "KeyNotFound" => (poolPresent /\ rev[u] = NoName)
                /\ e = "VolumeNotFound"
                     => (poolPresent /\ rev[u] # NoName /\ subvol[u] = "none")
                /\ e = "nil" => (poolPresent /\ rev[u] # NoName /\ subvol[u] # "none")
                /\ (poolPresent /\ rev[u] = NoName) => e \in {"KeyNotFound", "Other"}
                /\ (poolPresent /\ rev[u] # NoName /\ subvol[u] = "none")
                     => e \in {"VolumeNotFound", "Other"}
    ]_vars

C16_ExpandResult ==
  \A h \in Handlers :
    (pc[h] = "done" /\ res[h].op = "ControllerExpandVolume")
      => LET o == res[h].out IN
         /\ res[h].code = "OK"
              => /\ o.cap = o.resized
                 /\ o.resized >= o.bytes /\ o.resized - o.bytes < RoundUnit
                 /\ o.resized % RoundUnit = 0
         /\ (o.bytes # NoCap /\ res[h].code # "OK") => res[h].code = "Internal"
         /\ res[h].code # "OK" => (o.cap = NoCap /\ o.resized = NoCap)

\* One ControllerExpandVolume asked for 1 byte and returned capacity 2, the
\* size the volume was resized to; another one failed to resize.
C16_Witness ==
  \E h1, h2 \in Handlers :
    /\ pc[h1] = "done" /\ res[h1].op = "ControllerExpandVolume" /\ res[h1].code = "OK"
    /\ res[h1].out.bytes = 1 /\ res[h1].out.resized = 2 /\ res[h1].out.cap = 2
    /\ pc[h2] = "done" /\ res[h2].op = "ControllerExpandVolume" /\ res[h2].code = "Internal"
    /\ res[h2].out.bytes = 1 /\ res[h2].out.cap = NoCap

\* C17: ValidateVolumeCapabilities confirms the requested capabilities if
\* and only if none of them is a block capability; with a block capability
\* among them it confirms nothing.
C17_ValidateRejectsBlock ==
  \A h \in Handlers :
    (pc[h] = "done" /\ res[h].op = "ValidateVolumeCapabilities")
      => LET o == res[h].out IN
         /\ res[h].code = "OK"
         /\ o.confirmed <=> (\A i \in 1..Len(o.caps) : o.caps[i] # "block")
         /\ o.conf = (IF o.confirmed THEN o.caps ELSE <<>>)

\* A request with a mount and then a block capability was not confirmed, a
\* request with a mount capability alone was.
C17_Witness ==
  \E h1, h2 \in Handlers :
    /\ pc[h1] = "done" /\ res[h1].op = "ValidateVolumeCapabilities"
    /\ res[h1].out.caps = <<"mount", "block">> /\ ~res[h1].out.confirmed
    /\ pc[h2] = "done" /\ res[h2].op = "ValidateVolumeCapabilities"
    /\ res[h2].out.caps = <<"mount">> /\ res[h2].out.confirmed
    /\ res[h2].out.conf = <<"mount">>

\* C18: with the mapping {local A, remote B, RBD {2:3}}, consulting the
\* Resolver for an RBD handle with clusterID A and poolID 2 whose direct
\* Lookup missed translates it to clusterID B and poolID 3, the retried
\* Lookup is made there and finds the record exactly when B/3 holds it; a
\* handle whose clusterID has no mapping entry fails with the very not-found
\* error its direct Lookup gave, without another Lookup.
C18_MappingResolution ==
  [][\A r \in Requests :
       /\ (rq[r].pc = "resolve" /\ rq'[r] # rq[r])
            => /\ (clusterMapping = ClaimMapping /\ rq[r].kind = "RBD"
                   /\ rq[r].cluster = "A" /\ rq[r].pool = 2)
                    => (rq'[r].pc = "retry" /\ rq'[r].target = <<"B", 3>>)
               /\ (\A i \in 1..Len(clusterMapping) : clusterMapping[i].local # rq[r].cluster)
                    => /\ rq'[r].pc = "done"
                       /\ rq'[r].err = rq[r].tried[1].err
                       /\ rq'[r].err = "KeyNotFound"
                       /\ rq'[r].tried = rq[r].tried
       /\ (rq[r].pc = "retry" /\ rq'[r] # rq[r])
            => /\ rq'[r].pc = "done"
               /\ rq'[r].tried[2].at = rq[r].target
               /\ rq'[r].err = "nil" => rq[r].target \in journalAt
               /\ rq'[r].err = "KeyNotFound" => rq[r].target \notin journalAt
  ]_vars

\* Under the mapping {A -> B, RBD {2:3}} one request for A/2 missed there and
\* found the record at B/3; another, for cluster C, which has no entry,
\* ended not-found after its single direct Lookup.
C18_Witness ==
  \E r1, r2 \in Requests :
    /\ clusterMapping = ClaimMapping
    /\ rq[r1].pc = "done" /\ rq[r1].kind = "RBD" /\ rq[r1].err = "nil"
    /\ rq[r1].tried = <<[at |-> <<"A", 2>>, err |-> "KeyNotFound"],
                        [at |-> <<"B", 3>>, err |-> "nil"]>>
    /\ rq[r2].pc = "done" /\ rq[r2].cluster = "C" /\ rq[r2].err = "KeyNotFound"
    /\ rq[r2].consulted = 1 /\ rq[r2].target = NoTarget /\ Len(rq[r2].tried) = 1

\* C19: within one operation the Resolver is consulted at most once and only
\* after the direct Lookup, made with the handle's own clusterID and poolID,
\* returned not-found; a direct Lookup that succeeded or failed otherwise
\* ends the operation with that single Lookup; a translation is followed by
\* exactly one more Lookup, at the translated IDs, and nothing is tried a
\* third time.
C19_ResolverOnMissOnce ==
  \A r \in Requests :
    LET q == rq[r] IN
    /\ q.consulted <= 1
    /\ Len(q.tried) <= 2
    /\ Len(q.tried) >= 1 => q.tried[1].at = <<q.cluster, q.pool>>
    /\ q.consulted = 1 => (Len(q.tried) >= 1 /\ q.tried[1].err = "KeyNotFound")
    /\ (Len(q.tried) >= 1 /\ q.tried[1].err # "KeyNotFound")
         => (q.pc = "done" /\ q.consulted = 0 /\ Len(q.tried) = 1 /\ q.err = q.tried[1].err)
    /\ Len(q.tried) = 2
         => (q.consulted = 1 /\ q.target # NoTarget /\ q.tried[2].at = q.target
             /\ q.pc = "done" /\ q.err = q.tried[2].err)
    /\ (q.pc = "done" /\ q.target # NoTarget) => Len(q.tried) = 2

\* One request found the record with its direct Lookup and never consulted
\* the Resolver; another missed, consulted it once and failed its one retry
\* with an error that was not retried.
C19_Witness ==
  \E r1, r2 \in Requests :
    /\ rq[r1].pc = "done" /\ rq[r1].err = "nil" /\ rq[r1].consulted = 0
    /\ Len(rq[r1].tried) = 1
    /\ rq[r2].pc = "done" /\ rq[r2].err = "Other" /\ rq[r2].consulted = 1
    /\ Len(rq[r2].tried) = 2 /\ rq[r2].tried[1].err = "KeyNotFound"

\* C20: a handle decoded after encoding gives back the identifier it was
\* made from, for every identifier with a supported version and a clusterID
\* of at most 36 bytes, also when the clusterID contains '-'; and every
\* handle is 64 bytes longer than its clusterID.
C20_CodecRoundTrip ==
  /\ (csiID.st \in {"encoded", "decoded"})
       => Len(csiID.enc.handle) = 64 + Len(csiID.id.clusterID)
  /\ (csiID.st = "decoded" /\ csiID.id.version \in SupportedVersions
      /\ Len(csiID.id.clusterID) <= 36)
       => (csiID.dec.ok /\ csiID.dec.id = csiID.id)
  /\ (csiID.st = "new" /\ Len(csiID.id.clusterID) <= 36) => encode(csiID.id).ok

\* The identifier {1, rook-ceph, 2, b0285c97-...} was encoded as the handle
\* 0001-0009-rook-ceph-0000000000000002-b0285c97-... and decoded back.
C20_Witness ==
  /\ csiID.st = "decoded"
  /\ csiID.id = [version |-> 1, clusterID |-> RookCeph, poolID |-> 2, objectUUID |-> SampleUUID]
  /\ csiID.enc.handle = SampleHandle
  /\ csiID.dec.ok /\ csiID.dec.id.clusterID = RookCeph

\* C21: a DeleteVolume purges the backing object and unreserves the journal
\* entries of a volume with request name N only while the lock on N is held
\* for it: the key is in the registry at every such step, and no CreateVolume
\* of N is between its lock acquisition and its return at that time.
C21_CreateDeleteExclusion ==
  [][\A h \in Handlers :
       /\ (InFlight(h) /\ loc[h].op = "DeleteVolume" /\ pc[h] \in {"dv_purge", "undo1", "undo2"})
            => /\ NameKey(loc[h].name) \in VolumeLocks
               /\ \A g \in Handlers \ {h} :
                    ~(InFlight(g) /\ loc[g].op = "CreateVolume" /\ loc[g].name = loc[h].name)
       /\ (/\ InFlight(h) /\ loc[h].op = "DeleteVolume" /\ pc'[h] \notin {pc[h], "idle"}
           /\ <<fwd, rev, subvol>>' # <<fwd, rev, subvol>>)
            => /\ pc[h] \in {"dv_purge", "undo1", "undo2"}
               /\ NameKey(loc[h].name) \in VolumeLocks
  ]_vars

\* A DeleteVolume has purged the backing volume and is about to unreserve it
\* while a CreateVolume of the volume's request name has been turned away.
C21_Witness ==
  \E h, g \in Handlers :
    /\ pc[h] = "undo1" /\ loc[h].op = "DeleteVolume" /\ loc[h].lk = "nil"
    /\ subvol[loc[h].uuid] = "none"
    /\ pc[g] = "done" /\ res[g].op = "CreateVolume" /\ res[g].name = loc[h].name
    /\ res[g].code = "Aborted" /\ res[g].err = "Busy"

\* C23: after a successful lookup DeleteVolume purges the backing volume
\* before it unreserves: Unreserve starts only from a purge that succeeded or
\* reported VolumeNotFound, and the backing volume is gone while it runs; a
\* purge that fails otherwise ends the operation with Internal, Unreserve
\* has not run and the journal is as it was.
C23_DeletePurgeBeforeUnreserve ==
  [][\A h \in Handlers :
       /\ (pc[h] = "dv_purge" /\ pc'[h] = "undo1")
            => /\ loc'[h].purge \in {"nil", "VolumeNotFound"}
               /\ subvol'[loc[h].uuid] = "none"
               /\ UNCHANGED <<fwd, rev>>
       /\ (pc[h] = "dv_purge" /\ pc'[h] = "done" /\ res'[h].err # "BadSecrets")
            => /\ res'[h].purge = "Other"
               /\ res'[h].code = "Internal"
               /\ ~res'[h].undoRan
               /\ UNCHANGED <<fwd, rev, subvol>>
       /\ (loc'[h].op = "DeleteVolume" /\ loc'[h].lk = "nil" /\ pc'[h] \in {"undo1", "undo2"})
            => subvol'[loc'[h].uuid] = "none"
       /\ (pc'[h] = "done" /\ res'[h].op = "DeleteVolume" /\ res'[h].lk = "nil"
           /\ res'[h].undoRan)
            => res'[h].purge \in {"nil", "VolumeNotFound"}
  ]_vars

\* A DeleteVolume found its volume, the purge then reported VolumeNotFound,
\* and Unreserve ran all the same.
C23_Witness ==
  \E h \in Handlers :
    /\ pc[h] = "done" /\ res[h].op = "DeleteVolume" /\ res[h].lk = "nil"
    /\ res[h].purge = "VolumeNotFound" /\ res[h].undoRan

\* C24 as claimed: a DeleteVolume whose lookup fails with a kind other than
\* PoolNotFound, KeyNotFound or VolumeNotFound, InvalidVolumeID included,
\* returns Internal and changes neither the journal nor the backing store.
C24_LookupErrorsSurfaced ==
  [][\A h \in Handlers :
       (pc[h] = "dv_lookup" /\ pc'[h] = "done"
          /\ res'[h].lk \notin {"nil", "PoolNotFound", "KeyNotFound", "VolumeNotFound"})
         => /\ res'[h].code = "Internal"
            /\ UNCHANGED <<fwd, rev, subvol, tmpsnap, nextUUID>>
  ]_vars

\* C24: a DeleteVolume whose lookup fails with a kind other than
\* PoolNotFound, KeyNotFound, VolumeNotFound and InvalidVolumeID returns
\* Internal from the lookup and changes neither the journal nor the backing
\* store; so does one whose lookup fails with InvalidVolumeID when no
\* metadata store is configured, while with a metadata store the request is
\* handed to the delete path of 1.0.0 volumes.
C24_LookupErrorsSurfacedButLegacy ==
  [][\A h \in Handlers :
       (pc[h] = "dv_lookup" /\ pc'[h] = "done"
          /\ res'[h].lk \notin {"nil", "PoolNotFound", "KeyNotFound", "VolumeNotFound"})
         => /\ UNCHANGED <<fwd, rev, subvol, tmpsnap, nextUUID>>
            /\ ~res'[h].undoRan /\ res'[h].purge = "none"
            /\ res'[h].legacy => res'[h].lk = "InvalidVolID"
            /\ ~res'[h].legacy => res'[h].code = "Internal"
  ]_vars

\* One DeleteVolume failed its lookup with an unclassified error and returned
\* Internal with the journal entry of its volume still there; another, of an
\* undecodable ID and without a metadata store, returned Internal too.
C24_Witness ==
  \E h1, h2 \in Handlers :
    /\ pc[h1] = "done" /\ res[h1].op = "DeleteVolume" /\ res[h1].lk = "Other"
    /\ res[h1].code = "Internal" /\ res[h1].revAt # NoName
    /\ pc[h2] = "done" /\ res[h2].op = "DeleteVolume" /\ res[h2].lk = "InvalidVolID"
    /\ ~res[h2].legacy /\ res[h2].code = "Internal"

\* C25: no operation calls TryAcquire on a key it holds itself; the delete
\* path of 1.0.0 volumes, entered from DeleteVolume with the ID lock held, is
\* never turned away with Aborted.
C25_NoReentrantAcquire ==
  \A h \in Handlers :
    (pc[h] = "done" /\ res[h].op = "DeleteVolume" /\ res[h].legacy)
      => res[h].code # "Aborted"

\* C22: an operation refused for contention (Aborted because a lock it
\* needs is held) returns from the TryAcquire that failed without waiting:
\* it has made no change to the journal or to the backing store, neither in
\* that step nor before it, and every lock it had acquired is released when
\* it returns.  Stated for DeleteVolume and for the snapshot handlers.
C22_ContentionNoSideEffects ==
  [][ /\ \A h \in Handlers :
           (pc[h] # "done" /\ pc'[h] = "done" /\ res'[h].err = "Busy") =>
             /\ res'[h].code = "Aborted"
             /\ pc[h] \in {"idle", "dv_lockname", "dv_gc_lock"}
             /\ <<fwd, rev, subvol, tmpsnap>>' = <<fwd, rev, subvol, tmpsnap>>
             /\ ~res'[h].undoRan
             /\ res'[h].purge = "none"
             /\ (pc[h] = "idle" => VolumeLocks' = VolumeLocks)
             /\ (pc[h] # "idle" => IDKey(res'[h].uuid) \notin VolumeLocks')
      /\ \A h \in SnapHandlers :
           (sop[h].pc # "done" /\ sop'[h].pc = "done" /\ sop'[h].err = "Busy") =>
             /\ sop'[h].code = "Aborted"
             /\ sop[h].pc \in {"idle", "ds_lockname"}
             /\ <<snapJournal, snaps>>' = <<snapJournal, snaps>>
             /\ sop'[h].calls = <<>>
             /\ sop'[h].held = {}
             /\ sop[h].held \cap SnapshotLocks' = {}
             /\ (sop[h].pc = "idle" => SnapshotLocks' = SnapshotLocks)
    ]_vars

\* A DeleteSnapshot has been refused at the lock of the request name, after
\* it had acquired the lock of the snapshot ID, and a DeleteVolume has been
\* refused as well.
C22_Witness ==
  /\ \E h \in SnapHandlers :
       /\ sop[h].pc = "done"
       /\ sop[h].op = "DeleteSnapshot"
       /\ sop[h].err = "Busy"
       /\ sop[h].name # NoName
  /\ \E h \in Handlers :
       /\ pc[h] = "done"
       /\ res[h].op = "DeleteVolume"
       /\ res[h].err = "Busy"

\* C26: whenever a handler is at an Unreserve (undoVolReservation or
\* undoSnapReservation), in the rollback of a create, in a delete or in the
\* garbage collection of a delete whose object is not there, the lock of the
\* request name is held: by the registry for the volume handlers, by the
\* handler itself for the snapshot handlers.
C26_UnreserveUnderNameLock ==
  /\ \A h \in Handlers :
       pc[h] \in {"undo1", "undo2"} => NameKey(loc[h].name) \in VolumeLocks
  /\ \A h \in SnapHandlers :
       sop[h].pc \in {"cs_undo", "ds_gc", "ds_undo"} =>
         NameKey(sop[h].name) \in sop[h].held

\* C27: while a CreateSnapshot with source volume V is in flight, no step
\* of a handler deletes the backing subvolume of V or its journal entry: a
\* concurrent DeleteVolume(V) is refused, or the CreateSnapshot is.  The
\* removal of the whole pool is no handler's step.
C27_SourceVolumeProtected ==
  [][ \A h \in SnapHandlers :
        (SnapInFlight(h) /\ sop[h].op = "CreateSnapshot"
          /\ poolPresent' = poolPresent) =>
          /\ subvol'[sop[h].src] = subvol[sop[h].src]
          /\ rev'[sop[h].src] = rev[sop[h].src]
    ]_vars

\* The order of the primitives of a clone from a snapshot, and helpers on
\* the history of calls.
FSSequence == <<"newSnapshotOptionsFromID", "checkSnapExists", "cloneSnapshot",
                "resizeVolume", "getcloneInfo">>

IsPrefix(s, t) == Len(s) <= Len(t) /\ \A i \in 1..Len(s) : s[i] = t[i]

NotPurge(c) == c # "purgeVolume"

WasCalled(o, c) == \E i \in 1..Len(o.calls) : o.calls[i] = c

\* C28: clone from a snapshot.  The primitives run in the order lookup of
\* the source snapshot, checkSnapExists, cloneSnapshot, resizeVolume,
\* getcloneInfo, so the source is verified before anything is created; a
\* source that is not there is NotFound with nothing created; when the
\* resize or the completion query fails the purge of the new clone is the
\* last call before Internal is returned (and the clone is gone unless the
\* purge itself failed); a state other than complete is CloneInProgress
\* and the clone is not purged.
C28_CloneFromSnapshotSequence ==
  LET o == cloneOp IN
  o.fn = "cloneFromSnapshot" =>
    /\ IsPrefix(SelectSeq(o.calls, NotPurge), FSSequence)
    /\ (o.pc = "returned" /\ o.src = "missing") =>
         /\ o.ret \in {"NotFound", "Internal"}
         /\ o.clone = "none"
         /\ ~WasCalled(o, "cloneSnapshot")
    /\ (o.pc = "returned" /\ o.ret = "NotFound") => o.src = "missing"
    /\ (o.pc = "returned" /\ o.failed \in {"resizeVolume", "getcloneInfo"}) =>
         /\ o.ret = "Internal"
         /\ o.calls[Len(o.calls)] = "purgeVolume"
         /\ (~o.rbFault => o.clone = "none")
    /\ (o.pc = "returned" /\ o.ret = "CloneInProgress") =>
         /\ o.failed = "none"
         /\ ~WasCalled(o, "purgeVolume")
         /\ o.clone # "none"
    /\ (o.pc = "returned" /\ o.ret = "nil") =>
         /\ o.clone = "complete" /\ o.resized
         /\ ~WasCalled(o, "purgeVolume")

\* The completion query of a clone from a snapshot has failed and the new
\* clone has been purged before Internal was returned.
C28_Witness ==
  /\ cloneOp.fn = "cloneFromSnapshot"
  /\ cloneOp.pc = "returned"
  /\ cloneOp.failed = "getcloneInfo"
  /\ cloneOp.ret = "Internal"
  /\ cloneOp.clone = "none"

\* The steps of createCloneFromSubvolume after createSnapshot.
AfterSnapshotSteps == {"protectSnapshot", "cloneSnapshot", "getcloneInfo",
                       "resizeVolume", "unprotectSnapshot", "deleteSnapshot"}

\* C29: clone from a volume.  When a step after the creation of the
\* temporary snapshot has failed and no rollback primitive failed on its
\* own, then at the return the temporary snapshot is gone, the clone is
\* gone, and the error returned is the error of the step that failed.
C29_CloneFromVolumeRollback ==
  LET o == cloneOp IN
  (/\ o.fn = "createCloneFromSubvolume"
   /\ o.pc = "returned"
   /\ o.failed \in AfterSnapshotSteps
   /\ ~o.rbFault) =>
    /\ o.ts = "none"
    /\ o.clone = "none"
    /\ o.ret = ErrOf(o.failed)

\* C30: whenever createCloneFromSubvolume or checkCloneFromSubvolumeExists
\* returns success, the clone is complete and resized and the temporary
\* snapshot is gone; and a resumed check after a success, in which no
\* primitive fails, is a success again, found by the temporary snapshot
\* being gone.
C30_CloneSuccessLeavesNoSnapshot ==
  LET o == cloneOp IN
  /\ (/\ o.fn \in {"createCloneFromSubvolume", "checkCloneFromSubvolumeExists"}
      /\ o.pc = "returned"
      /\ o.ret = "nil") =>
       /\ o.clone = "complete"
       /\ o.state = "complete"
       /\ o.resized
       /\ o.ts = "none"
  /\ (/\ o.fn = "checkCloneFromSubvolumeExists"
      /\ o.pc = "returned"
      /\ o.prior
      /\ o.failed = "none") =>
       /\ o.ret = "nil"
       /\ ~WasCalled(o, "unprotectSnapshot")

\* A resumed check after a success has succeeded again.
C30_Witness ==
  /\ cloneOp.fn = "checkCloneFromSubvolumeExists"
  /\ cloneOp.pc = "returned"
  /\ cloneOp.prior
  /\ cloneOp.ret = "nil"

\* C31: a snapshot that is protected is never passed to deleteSnapshot:
\* every step that calls deleteSnapshot, on the temporary snapshot of a
\* clone or on a user snapshot, finds the snapshot unprotected.
C31_UnprotectPrecedesDelete ==
  [][ /\ (/\ Len(cloneOp'.calls) = Len(cloneOp.calls) + 1
          /\ cloneOp'.calls[Len(cloneOp'.calls)] = "deleteSnapshot")
           => cloneOp.ts # "protected"
      /\ \A h \in SnapHandlers :
           (/\ Len(sop'[h].calls) = Len(sop[h].calls) + 1
            /\ sop'[h].calls[Len(sop'[h].calls)] = "deleteSnapshot")
             => snaps[sop[h].sid].st # "protected"
    ]_vars

\* C32: when createCloneFromSubvolume has returned ErrCloneInProgress, the
\* completion query of that call succeeded and reported a state other than
\* complete, no rollback primitive (unprotectSnapshot, deleteSnapshot,
\* purgeVolume) ran in the call, and the clone and its protected temporary
\* snapshot are there.
C32_CloneInProgressNothingRolledBack ==
  LET o == cloneOp IN
  (/\ o.fn = "createCloneFromSubvolume"
   /\ o.pc = "returned"
   /\ o.ret = "CloneInProgress") =>
    /\ o.failed = "none"
    /\ o.state \notin {"", "complete"}
    /\ ~WasCalled(o, "unprotectSnapshot")
    /\ ~WasCalled(o, "deleteSnapshot")
    /\ ~WasCalled(o, "purgeVolume")
    /\ o.clone # "none"
    /\ o.ts = "protected"

\* C33: a failed lookup of the clone source is NotFound when the source is
\* not there (ErrVolumeNotFound for a source volume, ErrSnapNotFound for a
\* source snapshot) and Internal for any other error, and nothing has been
\* created on the backing store.
C33_MissingCloneSourceNotFound ==
  LET o == cloneOp IN
  (/\ o.pc = "returned"
   /\ o.failed \in {"newVolumeOptionsFromVolID", "newSnapshotOptionsFromID",
                    "checkSnapExists"}) =>
    /\ o.ret = IF o.lk \in {"VolumeNotFound", "SnapNotFound"} THEN "NotFound"
                                                               ELSE "Internal"
    /\ o.clone = "none"
    /\ o.ts = "none"

\* The step in which CreateSnapshot of handler h returns an error.
CSFails(h) ==
  /\ sop[h].pc # "done"
  /\ sop'[h].pc = "done"
  /\ sop'[h].op = "CreateSnapshot"
  /\ sop'[h].code # "OK"

\* C34: when CreateSnapshot returns an error and its cleanup calls have
\* succeeded, the snapshot of the call is not on the backing store and its
\* reservation is not in the journal; an error returned before the
\* reservation step (busy, source lookup, existence check, parent-size
\* query) leaves the journal and the backing store as they were, and
\* FailedPrecondition is the InvalidCommand of the parent-size query.
C34_CreateSnapshotRollsBack ==
  [][\A h \in SnapHandlers : CSFails(h) =>
       /\ sop[h].pc \in {"idle", "cs_lookup", "cs_check"} =>
            /\ snapJournal' = snapJournal
            /\ snaps' = snaps
            /\ sop'[h].calls = <<>>
       /\ sop'[h].code = "FailedPrecondition" =>
            /\ sop[h].pc = "cs_check"
            /\ sop'[h].err = "InvalidCommand"
       /\ sop[h].pc = "cs_reserve" =>
            /\ snapJournal' = snapJournal
            /\ snaps' = snaps
       /\ (sop[h].pc \in {"cs_snap", "cs_undo"} /\ ~sop'[h].rbFault) =>
            /\ snaps'[sop'[h].sid].st = "none"
            /\ snapJournal'.rev[sop'[h].sid] = NoName
            /\ snapJournal'.fwd[sop'[h].name] = NoUUID
    ]_vars

\* A CreateSnapshot whose protect failed has returned Internal after
\* deleting its snapshot and undoing its reservation.
C34_Witness ==
  \E h \in SnapHandlers :
    /\ sop[h].pc = "done"
    /\ sop[h].op = "CreateSnapshot"
    /\ sop[h].code = "Internal"
    /\ ~sop[h].rbFault
    /\ sop[h].calls = <<"reserveSnap", "createSnapshot", "getSnapshotInfo",
                        "protectSnapshot", "deleteSnapshot", "undoSnapReservation">>
    /\ snaps[sop[h].sid].st = "none"
    /\ snapJournal.fwd[sop[h].name] = NoUUID

\* Handler h is at the existence check of a CreateSnapshot whose request
\* name is reserved for a protected snapshot of the same source: an
\* earlier CreateSnapshot of the name has succeeded.
CSReplayAtCheck(h) ==
  /\ sop[h].pc = "cs_check"
  /\ snapJournal.fwd[sop[h].name] # NoUUID
  /\ snaps[snapJournal.fwd[sop[h].name]] = [st |-> "protected", src |-> sop[h].src]

\* Handler h enters CreateSnapshot while another handler is inside
\* CreateSnapshot of the same request name.
CSEntersDuring(h) ==
  /\ sop[h].pc = "idle"
  /\ sop'[h].pc # "idle"
  /\ sop'[h].op = "CreateSnapshot"
  /\ \E g \in SnapHandlers \ {h} :
       /\ sop[g].op = "CreateSnapshot"
       /\ sop[g].pc \notin {"idle", "done"}
       /\ sop[g].name = sop'[h].name

\* C35: a CreateSnapshot that finds its request name reserved for a
\* protected snapshot of the source, and whose existence check does not
\* fail, returns success with the identifier of that snapshot and has
\* reserved, created and protected nothing; a CreateSnapshot entered while
\* another CreateSnapshot of the same name is in flight returns Aborted and
\* changes nothing.
C35_CreateSnapshotReplay ==
  [][\A h \in SnapHandlers :
       /\ (CSReplayAtCheck(h) /\ sop'[h] # sop[h] /\ sop'[h].err = "nil") =>
            /\ sop'[h].pc = "done"
            /\ sop'[h].code = "OK"
            /\ sop'[h].sid = snapJournal.fwd[sop[h].name]
            /\ sop'[h].calls = <<>>
            /\ snapJournal' = snapJournal
            /\ snaps' = snaps
       /\ CSEntersDuring(h) =>
            /\ sop'[h].pc = "done"
            /\ sop'[h].code = "Aborted"
            /\ sop'[h].calls = <<>>
            /\ snapJournal' = snapJournal
            /\ snaps' = snaps
    ]_vars

\* A replayed CreateSnapshot has returned the snapshot of the earlier call
\* without a reservation or a backing call, and a CreateSnapshot that
\* entered meanwhile was turned away.
C35_Witness ==
  \E h \in SnapHandlers, g \in SnapHandlers :
    /\ h # g
    /\ sop[h].pc = "done"
    /\ sop[h].op = "CreateSnapshot"
    /\ sop[h].code = "OK"
    /\ sop[h].calls = <<>>
    /\ sop[h].sid # NoUUID
    /\ snaps[sop[h].sid].st = "protected"
    /\ snapJournal.fwd[sop[h].name] = sop[h].sid
    /\ sop[g].pc = "done"
    /\ sop[g].op = "CreateSnapshot"
    /\ sop[g].code = "Aborted"

\* The positions of DeleteSnapshot after a lookup that found the snapshot
\* and after the request name was locked.
DSFoundSteps == {"ds_unprotect", "ds_delete", "ds_undo"}

\* Handler h alone holds the snapshot-ID lock and the request-name lock of
\* its snapshot.
DSHoldsBoth(h) ==
  /\ {IDKey(sop[h].sid), NameKey(sop[h].name)} \subseteq sop[h].held
  /\ sop[h].held \subseteq SnapshotLocks
  /\ \A g \in SnapHandlers \ {h} : sop[g].held \cap sop[h].held = {}

\* C36: on a snapshot its lookup has found, DeleteSnapshot calls
\* unprotectSnapshot, then deleteSnapshot, then undoSnapReservation, each
\* while it alone holds the snapshot-ID lock and the request-name lock; a
\* failed unprotect or delete returns Internal and leaves the journal as
\* it was; the reservation is removed only by the third call, when
\* the backing snapshot is gone.
C36_DeleteSnapshotOrdering ==
  [][\A h \in SnapHandlers :
       /\ sop[h].pc \in DSFoundSteps => DSHoldsBoth(h)
       /\ sop[h].pc = "ds_unprotect" => sop[h].calls = <<>>
       /\ sop[h].pc = "ds_delete" => sop[h].calls = <<"unprotectSnapshot">>
       /\ sop[h].pc = "ds_undo" =>
            /\ sop[h].calls = <<"unprotectSnapshot", "deleteSnapshot">>
            /\ snaps[sop[h].sid].st = "none"
       /\ (sop[h].pc \in {"ds_unprotect", "ds_delete"} /\ sop'[h].pc = "done") =>
            /\ sop'[h].code = "Internal"
            /\ snapJournal' = snapJournal
       /\ (sop[h].pc \in DSFoundSteps \cup {"ds_lockname"}
             /\ sop'[h] # sop[h] /\ snapJournal' # snapJournal) =>
            /\ sop[h].pc = "ds_undo"
            /\ sop'[h].code = "OK"
            /\ sop'[h].calls = <<"unprotectSnapshot", "deleteSnapshot",
                                 "undoSnapReservation">>
            /\ snapJournal'.rev[sop[h].sid] = NoName
    ]_vars

\* A DeleteSnapshot has unprotected and deleted a snapshot and removed its
\* reservation, and has returned success.
C36_Witness ==
  \E h \in SnapHandlers :
    /\ sop[h].pc = "done"
    /\ sop[h].op = "DeleteSnapshot"
    /\ sop[h].code = "OK"
    /\ sop[h].calls = <<"unprotectSnapshot", "deleteSnapshot", "undoSnapReservation">>
    /\ snaps[sop[h].sid].st = "none"
    /\ snapJournal.rev[sop[h].sid] = NoName

\* The step in which handler h gets the answer of newSnapshotOptionsFromID
\* in DeleteSnapshot; the answer is sop'[h].err.
DSLooksUp(h) ==
  /\ sop[h].pc = "ds_lookup"
  /\ sop'[h] # sop[h]

\* Nothing of snapshot s is in the journal.
NoSnapEntry(j, s) ==
  /\ j.rev[s] = NoName
  /\ \A n \in SnapNames : j.fwd[n] # s

\* C37: when the lookup of DeleteSnapshot fails with PoolNotFound or
\* KeyNotFound the call returns success with no unprotect, delete or
\* journal change; with SnapNotFound it calls undoSnapReservation alone and
\* returns success with no journal entry of the snapshot left; any other
\* lookup error is Internal; and a DeleteSnapshot of a snapshot that has no
\* journal entry, as after a successful DeleteSnapshot, returns success
\* unless the lookup itself breaks.
C37_DeleteSnapshotNotFound ==
  [][\A h \in SnapHandlers :
       /\ (DSLooksUp(h) /\ sop'[h].err \in {"PoolNotFound", "KeyNotFound"}) =>
            /\ sop'[h].pc = "done"
            /\ sop'[h].code = "OK"
            /\ sop'[h].calls = <<>>
            /\ snapJournal' = snapJournal
            /\ snaps' = snaps
       /\ (DSLooksUp(h) /\ sop'[h].err = "SnapNotFound") =>
            /\ sop'[h].pc = "ds_gc"
            /\ sop'[h].calls = <<>>
       /\ (DSLooksUp(h) /\ sop'[h].err = "Other") =>
            /\ sop'[h].pc = "done"
            /\ sop'[h].code = "Internal"
            /\ sop'[h].calls = <<>>
            /\ snapJournal' = snapJournal
            /\ snaps' = snaps
       /\ (sop[h].pc = "ds_gc" /\ sop'[h] # sop[h]) =>
            /\ sop'[h].pc = "done"
            /\ sop'[h].calls = <<"undoSnapReservation">>
            /\ snaps' = snaps
            /\ sop'[h].code \in {"OK", "Internal"}
            /\ sop'[h].code = "OK" => NoSnapEntry(snapJournal', sop[h].sid)
            /\ sop'[h].code = "Internal" => snapJournal' = snapJournal
       /\ (DSLooksUp(h) /\ NoSnapEntry(snapJournal, sop[h].sid)
             /\ sop'[h].err # "Other") =>
            /\ sop'[h].pc = "done"
            /\ sop'[h].code = "OK"
    ]_vars

\* A DeleteSnapshot has deleted a snapshot, and a second DeleteSnapshot of
\* the same snapshot has found its key gone and has returned success with
\* no call made.
C37_Witness ==
  \E h \in SnapHandlers, g \in SnapHandlers :
    /\ h # g
    /\ sop[g].pc = "done"
    /\ sop[g].op = "DeleteSnapshot"
    /\ sop[g].code = "OK"
    /\ sop[g].calls = <<"unprotectSnapshot", "deleteSnapshot", "undoSnapReservation">>
    /\ sop[h].pc = "done"
    /\ sop[h].op = "DeleteSnapshot"
    /\ sop[h].sid = sop[g].sid
    /\ sop[h].err = "KeyNotFound"
    /\ sop[h].code = "OK"
    /\ sop[h].calls = <<>>

====
